---- MODULE Spec2Model ----
(***************************************************************************)
(* Loan-tracking chat bot (src/main.go): the per-chat conversation state   *)
(* machine of BotManager and the ledger (tables loans and repayments) it   *)
(* writes.  One action per inbound update kind: a text message, a command, *)
(* a button press.  The dispatch loop (BotManager.Start) handles updates   *)
(* one at a time, so each handler is one atomic step.                      *)
(***************************************************************************)
EXTENDS Integers, Sequences, FiniteSets, TLC

VARIABLES
    loans,        \* table loans: set of rows, primary key (user_id, loan_id)
    repayments,   \* table repayments: rows in rowid (insertion) order
    userStates,   \* BotManager.userStates: chat id -> UserState
    calls         \* handler invocations in progress: worker -> position and locals

vars == <<loans, repayments, userStates, calls>>

----------------------------------------------------------------------------
(* Bounds of the model *)

NumOwners == 1        \* chat ids 1..NumOwners
MaxLoanID == 1        \* loans are created while the allocated id is <= this
MaxRepayments == 2    \* repayment rows are inserted while the table is shorter
MaxAmount == 2        \* amounts typed by the user are 0..MaxAmount

Owners == 1..NumOwners

----------------------------------------------------------------------------
(* Operation types, src/main.go:18-27 *)

OpAddLoan == "addloan"
OpRepayLoan == "repayloan"
OpEditLoan == "editloan"
OpDeleteLoan == "deleteloan"
OpPartialRepay == "partialrepay"
OpSearchLoan == "searchloan"
OpNone == ""

----------------------------------------------------------------------------
(* Text conversions *)

Digit == <<"0", "1", "2", "3", "4", "5", "6", "7", "8", "9">>

RECURSIVE FormatNat(_)
FormatNat(n) ==
    IF n < 10 THEN Digit[n + 1]
    ELSE FormatNat(n \div 10) \o Digit[(n % 10) + 1]

\* fmt.Sprintf("%d", n)
FormatInt(n) == IF n < 0 THEN "-" \o FormatNat(0 - n) ELSE FormatNat(n)

\* Every integer the ledger arithmetic of the model can produce.
IntRange == (0 - (MaxAmount + 1) * (MaxRepayments + 2)) .. ((MaxAmount + 1) * (MaxRepayments + 2))

\* The decimal spellings strconv accepts for n: an optional sign, then digits.
Spellings(n) ==
    IF n < 0 THEN {"-" \o FormatNat(0 - n)}
    ELSE {FormatNat(n), "+" \o FormatNat(n)} \cup (IF n = 0 THEN {"-0"} ELSE {})

\* strconv.ParseInt(s, 10, 64) and strconv.Atoi(s): err is TRUE when s is no number.
Numerals == UNION {Spellings(n) : n \in IntRange}

\* The number each numeral spells.
NumeralValue == [s \in Numerals |-> CHOOSE n \in IntRange : s \in Spellings(n)]

ParseInt(s) ==
    IF s \in Numerals THEN [err |-> FALSE, val |-> NumeralValue[s]]
    ELSE [err |-> TRUE, val |-> 0]

Atoi(s) == ParseInt(s)

\* strings.ToLower on the texts of the model.
ToLower(s) ==
    CASE s \in {"DA", "Da"} -> "da"      \* "да"
      [] s \in {"NET", "Net"} -> "net"   \* "нет"
      [] OTHER -> s

\* strings.TrimSpace on the texts of the model: " " is a message of blanks only.
TrimSpace(s) ==
    CASE s = " " -> ""
      [] s = " 1 " -> "1"
      [] OTHER -> s

Yes == "da"    \* the confirmation word "да"
No == "net"    \* the refusal word "нет"

----------------------------------------------------------------------------
(* The world a handler works on: the two tables, the session map and the   *)
(* messages the handler has sent so far through the bot API (its output,   *)
(* which is no state of the program).                                      *)

\* The world at the start of a handler: nothing sent yet.
World == [loans |-> loans, repayments |-> repayments,
          userStates |-> userStates, sent |-> <<>>]

EmptyData == [k \in {} |-> ""]

\* No entry in the userStates map.
NoState == [exists |-> FALSE, Operation |-> OpNone, Step |-> 0, Data |-> EmptyData]

\* map read: a missing key reads as the empty string
MapGet(d, k) == IF k \in DOMAIN d THEN d[k] ELSE ""

MapPut(d, k, v) == [x \in (DOMAIN d) \cup {k} |-> IF x = k THEN v ELSE d[x]]

\* GetState: the entry of chatID, created idle when absent.
GetState(w, chatID) ==
    IF w.userStates[chatID].exists THEN w
    ELSE [w EXCEPT !.userStates[chatID] =
             [exists |-> TRUE, Operation |-> OpNone, Step |-> 0, Data |-> EmptyData]]

\* A SetState that stores the step after the one it is given.
SetStateStepAhead(w, chatID, operation, step) ==
    [w EXCEPT !.userStates[chatID] =
        [exists |-> TRUE, Operation |-> operation, Step |-> step + 1,
         Data |-> w.userStates[chatID].Data]]

SetState(w, chatID, operation, step) ==
    LET state == IF w.userStates[chatID].exists THEN w.userStates[chatID]
                 ELSE [exists |-> TRUE, Operation |-> OpNone, Step |-> 0, Data |-> EmptyData]
    IN  [w EXCEPT !.userStates[chatID] =
            [state EXCEPT !.Operation = operation, !.Step = step]]

ClearState(w, chatID) == [w EXCEPT !.userStates[chatID] = NoState]

\* A write of scratch data that is dropped.
SaveStateDataDropped(w, chatID, key, value) == w

SaveStateData(w, chatID, key, value) ==
    LET state == IF w.userStates[chatID].exists THEN w.userStates[chatID]
                 ELSE [exists |-> TRUE, Operation |-> OpNone, Step |-> 0, Data |-> EmptyData]
    IN  [w EXCEPT !.userStates[chatID] =
            [state EXCEPT !.Data = MapPut(state.Data, key, value)]]

\* GetStateData: the value and whether the key is present.
GetStateData(w, chatID, key) ==
    IF ~w.userStates[chatID].exists THEN [value |-> "", present |-> FALSE]
    ELSE [value |-> MapGet(w.userStates[chatID].Data, key),
          present |-> key \in DOMAIN w.userStates[chatID].Data]

\* A message to chatID: a tag naming the text, and the numbers the text shows.
SendMessage(w, chatID, tag, args) ==
    [w EXCEPT !.sent = Append(w.sent, [chat |-> chatID, tag |-> tag, args |-> args])]

ShowMainMenu(w, chatID) == SendMessage(w, chatID, "MainMenu", <<>>)

----------------------------------------------------------------------------
(* The ledger *)

LoanRows(w, chatID, loanID) ==
    {l \in w.loans : l.user_id = chatID /\ l.loan_id = loanID}

RECURSIVE SumAmounts(_)
SumAmounts(rows) ==
    IF rows = <<>> THEN 0 ELSE Head(rows).amount + SumAmounts(Tail(rows))

RepaymentsOf(reps, chatID, loanID) ==
    SelectSeq(reps, LAMBDA r : r.user_id = chatID /\ r.loan_id = loanID)

\* A total that never counts a repayment.
GetTotalRepaidAmountNone(w, chatID, loanID, F) == 0

\* GetTotalRepaidAmount: SUM(amount) of the loan's repayments, 0 when the query fails.
GetTotalRepaidAmount(w, chatID, loanID, F) ==
    IF "sum_repaid" \in F THEN 0
    ELSE SumAmounts(RepaymentsOf(w.repayments, chatID, loanID))

\* GetLoanByID: the row of (chatID, loanID) whatever its repaid flag; err when
\* there is no such row or the query fails.
GetLoanByID(w, chatID, loanID, F) ==
    IF "select_loan" \in F \/ LoanRows(w, chatID, loanID) = {}
    THEN [err |-> TRUE, loan |-> [user_id |-> chatID, loan_id |-> 0, borrower_name |-> "",
                                  amount |-> 0, purpose |-> "", repaid |-> FALSE]]
    ELSE [err |-> FALSE, loan |-> CHOOSE l \in LoanRows(w, chatID, loanID) : TRUE]

\* An allocation that hands out the smallest id the owner does not hold.
NextLoanIDLowestFree(w, chatID) ==
    LET ids == {l.loan_id : l \in {x \in w.loans : x.user_id = chatID}}
    IN  CHOOSE n \in 1..(Cardinality(ids) + 1) :
            n \notin ids /\ \A k \in 1..(n - 1) : k \in ids

\* The number of the owner's loans plus 1.
NextLoanIDByCount(w, chatID) ==
    Cardinality({x \in w.loans : x.user_id = chatID}) + 1

\* SELECT COALESCE(MAX(loan_id), 0) + 1 FROM loans WHERE user_id = ?
NextLoanID(w, chatID) ==
    LET ids == {l.loan_id : l \in {x \in w.loans : x.user_id = chatID}}
    IN  IF ids = {} THEN 1 ELSE (CHOOSE m \in ids : \A i \in ids : i <= m) + 1

\* INSERT INTO repayments (user_id, loan_id, amount, repayment_date, note)
InsertRepayment(w, chatID, loanID, amount, note) ==
    [w EXCEPT !.repayments = Append(w.repayments,
        [user_id |-> chatID, loan_id |-> loanID, amount |-> amount, note |-> note])]

\* The update with the condition on user_id left out.
UpdateRepaidAnyOwner(w, chatID, loanID) ==
    [w EXCEPT !.loans = {IF l.loan_id = loanID
                         THEN [l EXCEPT !.repaid = TRUE] ELSE l : l \in w.loans}]

\* UPDATE loans SET repaid = 1 WHERE user_id = ? AND loan_id = ?
UpdateRepaid(w, chatID, loanID) ==
    [w EXCEPT !.loans = {IF l.user_id = chatID /\ l.loan_id = loanID
                         THEN [l EXCEPT !.repaid = TRUE] ELSE l : l \in w.loans}]

----------------------------------------------------------------------------
(* add-loan flow *)

StartAddLoanFlow(w, chatID) ==
    LET w1 == ClearState(w, chatID)
        w2 == SendMessage(w1, chatID, "PromptBorrowerName", <<>>)
    IN  SetState(w2, chatID, OpAddLoan, 0)

\* case 0 of HandleAddLoanStep: the borrower name
AddLoanNameStep(w, chatID, text) ==
    IF text = "" THEN SendMessage(w, chatID, "ErrEmptyName", <<>>)
    ELSE LET w1 == SaveStateData(w, chatID, "borrower_name", text)
             w2 == SetState(w1, chatID, OpAddLoan, 1)
         IN  SendMessage(w2, chatID, "PromptAmount", <<>>)

\* The amount step with the parse error ignored.
AddLoanAmountStepUnchecked(w, chatID, text) ==
    LET amount == ParseInt(text)
        w1 == SaveStateData(w, chatID, "amount", FormatInt(amount.val))
        w2 == SetState(w1, chatID, OpAddLoan, 2)
    IN  SendMessage(w2, chatID, "PromptPurpose", <<>>)

\* case 1 of HandleAddLoanStep: the amount; only a text that is no number is refused
AddLoanAmountStep(w, chatID, text) ==
    LET amount == ParseInt(text)
    IN  IF amount.err THEN SendMessage(w, chatID, "ErrBadAmount", <<>>)
        ELSE LET w1 == SaveStateData(w, chatID, "amount", FormatInt(amount.val))
                 w2 == SetState(w1, chatID, OpAddLoan, 2)
             IN  SendMessage(w2, chatID, "PromptPurpose", <<>>)

\* case 2 of HandleAddLoanStep: the purpose, then the id query and the insert
AddLoanPurposeStep(w, chatID, text, F) ==
    IF text = "" THEN SendMessage(w, chatID, "ErrEmptyPurpose", <<>>)
    ELSE LET w1 == SaveStateData(w, chatID, "purpose", text)
             data == w1.userStates[chatID].Data
             newLoanID == NextLoanID(w1, chatID)
             row == [user_id |-> chatID, loan_id |-> newLoanID,
                     borrower_name |-> MapGet(data, "borrower_name"),
                     \* the INTEGER column takes the number the text spells
                     amount |-> ParseInt(MapGet(data, "amount")).val,
                     purpose |-> MapGet(data, "purpose"),
                     repaid |-> FALSE]
         IN  IF "next_loan_id" \in F
             THEN SendMessage(w1, chatID, "ErrLoanID", <<>>)
             ELSE IF "insert_loan" \in F \/ LoanRows(w1, chatID, newLoanID) /= {}
             THEN SendMessage(w1, chatID, "ErrInsertLoan", <<>>)
             ELSE LET w2 == [w1 EXCEPT !.loans = w1.loans \cup {row}]
                      w3 == SendMessage(w2, chatID, "LoanRegistered", <<newLoanID>>)
                      w4 == ClearState(w3, chatID)
                  IN  ShowMainMenu(w4, chatID)

HandleAddLoanStep(w0, chatID, text, F) ==
    LET w == GetState(w0, chatID)
        state == w.userStates[chatID]
    IN  CASE state.Step = 0 -> AddLoanNameStep(w, chatID, text)
          [] state.Step = 1 -> AddLoanAmountStep(w, chatID, text)
          [] state.Step = 2 -> AddLoanPurposeStep(w, chatID, text, F)
          [] OTHER -> w

----------------------------------------------------------------------------
(* Listings *)

RECURSIVE SortedSeq(_)
SortedSeq(S) ==
    IF S = {} THEN <<>>
    ELSE LET m == CHOOSE x \in S : \A y \in S : x <= y
         IN  <<m>> \o SortedSeq(S \ {m})

\* A listing that does not look at the flag.
GetLoansIgnoringFlag(w, chatID) ==
    SortedSeq({l.loan_id : l \in {x \in w.loans : x.user_id = chatID}})

\* GetActiveLoansForUser: the ids of the rows with repaid = 0
GetActiveLoansForUser(w, chatID) ==
    SortedSeq({l.loan_id : l \in {x \in w.loans : x.user_id = chatID /\ ~x.repaid}})

\* GetAllLoansForUser
GetAllLoansForUser(w, chatID) ==
    SortedSeq({l.loan_id : l \in {x \in w.loans : x.user_id = chatID}})

----------------------------------------------------------------------------
(* repay-full flow *)

StartRepayLoanFlow(w, chatID, F) ==
    LET w1 == ClearState(w, chatID)
        activeLoans == GetActiveLoansForUser(w1, chatID)
    IN  IF "select_loans" \in F
        THEN ShowMainMenu(SendMessage(w1, chatID, "ErrActiveLoans", <<>>), chatID)
        ELSE IF Len(activeLoans) = 0
        THEN ShowMainMenu(SendMessage(w1, chatID, "NoActiveLoans", <<>>), chatID)
        ELSE SetState(SendMessage(w1, chatID, "SelectRepay", activeLoans),
                      chatID, OpRepayLoan, 0)

\* Step 1 of the repay flow after the answer "да": the two statements of lines 380-410.
ConfirmRepayByText(w, chatID, F) ==
    LET loanIDStr == GetStateData(w, chatID, "loan_id").value
        amountStr == GetStateData(w, chatID, "amount").value
        loanID == Atoi(loanIDStr).val
        amount == ParseInt(amountStr).val
    IN  IF "update_repaid" \in F
        THEN ShowMainMenu(ClearState(SendMessage(w, chatID, "ErrMarkRepaid", <<>>), chatID), chatID)
        ELSE LET w1 == UpdateRepaid(w, chatID, loanID)
                 \* a failed insert is logged only: the flag stays set
                 w2 == IF "insert_repayment" \in F THEN w1
                       ELSE InsertRepayment(w1, chatID, loanID, amount, "full")
                 w3 == SendMessage(w2, chatID, "RepaidOK", <<loanID, amount>>)
             IN  ShowMainMenu(ClearState(w3, chatID), chatID)

HandleRepayLoanStep(w0, chatID, text, F) ==
    LET w == GetState(w0, chatID)
        state == w.userStates[chatID]
    IN  CASE state.Step = 0 ->
               LET loanID == Atoi(text)
                   rows == LoanRows(w, chatID, loanID.val)
               IN  IF loanID.err THEN SendMessage(w, chatID, "ErrBadLoanNumber", <<>>)
                   ELSE IF "select_loan" \in F \/ rows = {}
                   \* no row to scan, or the query failed
                   THEN ShowMainMenu(ClearState(
                            SendMessage(w, chatID, "ErrCheckLoan", <<>>), chatID), chatID)
                   ELSE LET row == CHOOSE l \in rows : TRUE
                        IN  IF row.repaid
                            THEN SendMessage(w, chatID, "ErrNotFoundOrRepaid", <<>>)
                            ELSE LET w1 == SaveStateData(w, chatID, "loan_id", text)
                                     w2 == SaveStateData(w1, chatID, "borrower", row.borrower_name)
                                     w3 == SaveStateData(w2, chatID, "amount", FormatInt(row.amount))
                                     w4 == SetState(w3, chatID, OpRepayLoan, 1)
                                 IN  SendMessage(w4, chatID, "ConfirmRepayPrompt",
                                                 <<loanID.val, row.amount>>)
          [] state.Step = 1 ->
               LET confirmation == ToLower(text)
               IN  IF confirmation = Yes THEN ConfirmRepayByText(w, chatID, F)
                   ELSE IF confirmation = No
                   THEN ShowMainMenu(ClearState(
                            SendMessage(w, chatID, "RepayCancelled", <<>>), chatID), chatID)
                   ELSE SendMessage(w, chatID, "PromptYesNo", <<>>)
          [] OTHER -> w

----------------------------------------------------------------------------
(* edit-loan flow *)

UpdateLoanField(w, chatID, loanID, field, value) ==
    [w EXCEPT !.loans = {IF l.user_id = chatID /\ l.loan_id = loanID
                         THEN [l EXCEPT ![field] = value] ELSE l : l \in w.loans}]

HandleEditLoanStep(w0, chatID, text, F) ==
    LET w == GetState(w0, chatID)
        state == w.userStates[chatID]
        loanID == Atoi(GetStateData(w, chatID, "loan_id").value)
        editField == GetStateData(w, chatID, "edit_field").value
        abort(tag) == ShowMainMenu(ClearState(SendMessage(w, chatID, tag, <<>>), chatID), chatID)
        done(w1) == ShowMainMenu(ClearState(w1, chatID), chatID)
    IN  IF loanID.err THEN abort("ErrEdit")
        ELSE IF state.Step /= 1 THEN w
        ELSE CASE editField = "name" ->
                    IF "update_loan" \in F THEN abort("ErrUpdateName")
                    ELSE done(SendMessage(
                             UpdateLoanField(w, chatID, loanID.val, "borrower_name", text),
                             chatID, "NameChanged", <<>>))
               [] editField = "amount" ->
                    LET amount == ParseInt(text)
                    IN  IF amount.err \/ amount.val <= 0
                        THEN SendMessage(w, chatID, "ErrPositiveAmount", <<>>)
                        ELSE IF "update_loan" \in F THEN abort("ErrUpdateAmount")
                        ELSE done(SendMessage(
                                 UpdateLoanField(w, chatID, loanID.val, "amount", amount.val),
                                 chatID, "AmountChanged", <<amount.val>>))
               [] editField = "purpose" ->
                    IF "update_loan" \in F THEN abort("ErrUpdatePurpose")
                    ELSE done(SendMessage(
                             UpdateLoanField(w, chatID, loanID.val, "purpose", text),
                             chatID, "PurposeChanged", <<>>))
               [] OTHER -> done(SendMessage(w, chatID, "ErrEdit", <<>>))

----------------------------------------------------------------------------
(* partial-repay flow *)

HandlePartialRepaymentStep(w0, chatID, text, F) ==
    LET w == GetState(w0, chatID)
        state == w.userStates[chatID]
        loanID == Atoi(GetStateData(w, chatID, "loan_id").value)
        \* the balance staged when the loan was selected; a parse error reads as 0
        remaining == ParseInt(GetStateData(w, chatID, "remaining_amount").value).val
    IN  IF loanID.err
        THEN ShowMainMenu(ClearState(SendMessage(w, chatID, "ErrPartial", <<>>), chatID), chatID)
        ELSE CASE state.Step = 1 ->
                    LET amount == ParseInt(text)
                    IN  IF amount.err \/ amount.val <= 0
                        THEN SendMessage(w, chatID, "ErrPositiveAmount", <<>>)
                        ELSE IF amount.val > remaining
                        THEN SendMessage(w, chatID, "ErrExceedsRemaining", <<amount.val, remaining>>)
                        ELSE LET w1 == SaveStateData(w, chatID, "repayment_amount",
                                                     FormatInt(amount.val))
                                 w2 == SetState(w1, chatID, OpPartialRepay, 2)
                             IN  SendMessage(w2, chatID, "PromptNote", <<>>)
               [] state.Step = 2 ->
                    LET amount == ParseInt(GetStateData(w, chatID, "repayment_amount").value).val
                        note == IF text = "-" THEN "" ELSE text
                        newRemaining == remaining - amount
                    IN  IF "insert_repayment" \in F
                        THEN ShowMainMenu(ClearState(
                                 SendMessage(w, chatID, "ErrRecordPartial", <<>>), chatID), chatID)
                        ELSE LET w1 == InsertRepayment(w, chatID, loanID.val, amount, note)
                                 \* a failed flag update is logged only
                                 w2 == IF newRemaining = 0 /\ "update_repaid" \notin F
                                       THEN UpdateRepaid(w1, chatID, loanID.val) ELSE w1
                                 w3 == IF newRemaining = 0
                                       THEN SendMessage(w2, chatID, "PartialPaidOff", <<amount>>)
                                       ELSE SendMessage(w2, chatID, "PartialRecorded",
                                                        <<amount, newRemaining>>)
                             IN  ShowMainMenu(ClearState(w3, chatID), chatID)
               [] OTHER -> w

----------------------------------------------------------------------------
(* search flow *)

\* The characters of the names and search texts of the model.  "Zhan" and
\* "zhan" stand for the Cyrillic "Жан" and "жан": their characters are
\* marked with # as not ASCII.
Letters(s) ==
    CASE s = "Ayan" -> <<"A", "y", "a", "n">>
      [] s = "Maya" -> <<"M", "a", "y", "a">>
      [] s = "ay" -> <<"a", "y">>
      [] s = "AY" -> <<"A", "Y">>
      [] s = "Zhan" -> <<"#ZH", "#a", "#n">>
      [] s = "zhan" -> <<"#zh", "#a", "#n">>
      [] s = "" -> <<>>
      [] OTHER -> <<s>>

\* ASCII lower case, as LIKE compares: other characters are left as they are.
LowerASCII(c) ==
    CASE c = "A" -> "a"
      [] c = "M" -> "m"
      [] c = "Y" -> "y"
      [] OTHER -> c

\* X LIKE pattern: % matches any run of characters, _ any one character,
\* any other character itself, the case of ASCII letters ignored.
RECURSIVE LikeMatch(_, _)
LikeMatch(pattern, x) ==
    IF pattern = <<>> THEN x = <<>>
    ELSE IF Head(pattern) = "%"
    THEN \E i \in 0..Len(x) : LikeMatch(Tail(pattern), SubSeq(x, i + 1, Len(x)))
    ELSE IF x = <<>> THEN FALSE
    ELSE IF Head(pattern) = "_" THEN LikeMatch(Tail(pattern), Tail(x))
    ELSE /\ LowerASCII(Head(pattern)) = LowerASCII(Head(x))
         /\ LikeMatch(Tail(pattern), Tail(x))

\* borrower_name LIKE '%' + text + '%'
Contains(name, text) == LikeMatch(<<"%">> \o Letters(text) \o <<"%">>, Letters(name))

HandleSearchStep(w0, chatID, text, F) ==
    LET w == GetState(w0, chatID)
        state == w.userStates[chatID]
        searchType == GetStateData(w, chatID, "search_type").value
        found == SortedSeq({l.loan_id : l \in {x \in w.loans :
                     x.user_id = chatID /\ Contains(x.borrower_name, text)}})
    IN  IF state.Step = 0 /\ searchType = "by_name"
        THEN IF "search" \in F
             THEN ShowMainMenu(ClearState(SendMessage(w, chatID, "ErrSearch", <<>>), chatID), chatID)
             ELSE LET w1 == IF Len(found) = 0
                            THEN SendMessage(w, chatID, "NothingFound", <<>>)
                            ELSE SendMessage(w, chatID, "SearchResults", found)
                  IN  ShowMainMenu(ClearState(w1, chatID), chatID)
        ELSE w

----------------------------------------------------------------------------
(* delete *)

\* The statements of DeleteLoan, each applied to the tables as it runs.
DeleteLoanNoTx(w, chatID, loanID, F) ==
    LET w1 == [w EXCEPT !.repayments = SelectSeq(w.repayments,
                   LAMBDA r : ~(r.user_id = chatID /\ r.loan_id = loanID))]
        w2 == [w1 EXCEPT !.loans =
                   {l \in w1.loans : ~(l.user_id = chatID /\ l.loan_id = loanID)}]
    IN  IF F \cap {"begin", "delete_repayments"} /= {} THEN [err |-> TRUE, w |-> w]
        ELSE IF "delete_loan" \in F THEN [err |-> TRUE, w |-> w1]
        ELSE IF "commit" \in F THEN [err |-> TRUE, w |-> w2]
        ELSE [err |-> FALSE, w |-> w2]

\* The loan row deleted, its repayments left.
DeleteLoanRowOnly(w, chatID, loanID, F) ==
    IF F \cap {"begin", "delete_repayments", "delete_loan", "commit"} /= {}
    THEN [err |-> TRUE, w |-> w]
    ELSE [err |-> FALSE,
          w |-> [w EXCEPT !.loans =
                    {l \in w.loans : ~(l.user_id = chatID /\ l.loan_id = loanID)}]]

\* DeleteLoan: one transaction; a failure of any statement or of the commit
\* leaves both tables as they were.
DeleteLoan(w, chatID, loanID, F) ==
    IF F \cap {"begin", "delete_repayments", "delete_loan", "commit"} /= {}
    THEN [err |-> TRUE, w |-> w]
    ELSE [err |-> FALSE,
          w |-> [w EXCEPT
                   !.repayments = SelectSeq(w.repayments,
                       LAMBDA r : ~(r.user_id = chatID /\ r.loan_id = loanID)),
                   !.loans = {l \in w.loans : ~(l.user_id = chatID /\ l.loan_id = loanID)}]]

----------------------------------------------------------------------------
(* Flows started from the menus *)

\* The common shape of StartEditLoanFlow, StartDeleteLoanFlow and
\* StartPartialRepaymentFlow: clear, list, set the flow at step 0.
StartListFlow(w, chatID, list, errTag, emptyTag, listTag, operation, F) ==
    LET w1 == ClearState(w, chatID)
    IN  IF "select_loans" \in F
        THEN ShowMainMenu(SendMessage(w1, chatID, errTag, <<>>), chatID)
        ELSE IF Len(list) = 0
        THEN ShowMainMenu(SendMessage(w1, chatID, emptyTag, <<>>), chatID)
        ELSE SetState(SendMessage(w1, chatID, listTag, list), chatID, operation, 0)

StartEditLoanFlow(w, chatID, F) ==
    StartListFlow(w, chatID, GetActiveLoansForUser(w, chatID),
                  "ErrActiveLoans", "NoActiveLoans", "SelectEdit", OpEditLoan, F)

StartDeleteLoanFlow(w, chatID, F) ==
    StartListFlow(w, chatID, GetAllLoansForUser(w, chatID),
                  "ErrLoans", "NoLoans", "SelectDelete", OpDeleteLoan, F)

StartPartialRepaymentFlow(w, chatID, F) ==
    StartListFlow(w, chatID, GetActiveLoansForUser(w, chatID),
                  "ErrActiveLoans", "NoActiveLoans", "SelectPartial", OpPartialRepay, F)

StartSearchByNameFlow(w, chatID) ==
    LET w1 == ClearState(w, chatID)
        w2 == SetState(w1, chatID, OpSearchLoan, 0)
        w3 == SaveStateData(w2, chatID, "search_type", "by_name")
    IN  SendMessage(w3, chatID, "PromptSearchName", <<>>)

StartSearchByStatusFlow(w, chatID) == SendMessage(w, chatID, "StatusMenu", <<>>)

----------------------------------------------------------------------------
(* Read-only displays *)

ShowLoanManagementMenu(w, chatID) == SendMessage(w, chatID, "ManageMenu", <<>>)

ShowSearchMenu(w, chatID) == SendMessage(w, chatID, "SearchMenu", <<>>)

\* A balance view that ends the flow the session is in.
ShowBalanceEndsFlow(w, chatID, F) ==
    ClearState(SendMessage(w, chatID, "Balance", GetActiveLoansForUser(w, chatID)), chatID)

ShowBalance(w, chatID, F) ==
    IF "select_loans" \in F THEN SendMessage(w, chatID, "ErrBalance", <<>>)
    ELSE SendMessage(w, chatID, "Balance", GetActiveLoansForUser(w, chatID))

ShowStats(w, chatID, F) ==
    IF "select_loans" \in F THEN SendMessage(w, chatID, "ErrStats", <<>>)
    ELSE LET mine == {l \in w.loans : l.user_id = chatID}
             totalLoans == Cardinality(mine)
             totalRepaid == Cardinality({l \in mine : l.repaid})
         IN  SendMessage(w, chatID, "Stats", <<totalLoans, totalRepaid, totalLoans - totalRepaid>>)

ShowLoansByStatus(w, chatID, repaidStatus, F) ==
    LET list == SortedSeq({l.loan_id : l \in {x \in w.loans :
                    x.user_id = chatID /\ x.repaid = repaidStatus}})
    IN  IF "select_loans" \in F
        THEN ShowMainMenu(SendMessage(w, chatID, "ErrLoans", <<>>), chatID)
        ELSE IF Len(list) = 0
        THEN ShowMainMenu(SendMessage(w, chatID, "NoLoansOfStatus", <<>>), chatID)
        ELSE ShowMainMenu(SendMessage(w, chatID, "LoansByStatus", list), chatID)

ShowAllLoans(w, chatID, F) ==
    LET allLoans == GetAllLoansForUser(w, chatID)
    IN  IF "select_loans" \in F
        THEN ShowMainMenu(SendMessage(w, chatID, "ErrLoans", <<>>), chatID)
        ELSE IF Len(allLoans) = 0
        THEN ShowMainMenu(SendMessage(w, chatID, "NoLoans", <<>>), chatID)
        ELSE ShowMainMenu(SendMessage(w, chatID, "AllLoans", allLoans), chatID)

ShowRepaymentHistory(w, chatID, F) ==
    LET allLoans == GetAllLoansForUser(w, chatID)
    IN  IF "select_loans" \in F
        THEN ShowMainMenu(SendMessage(w, chatID, "ErrLoans", <<>>), chatID)
        ELSE IF Len(allLoans) = 0
        THEN ShowMainMenu(SendMessage(w, chatID, "NoLoansWithHistory", <<>>), chatID)
        ELSE SendMessage(w, chatID, "SelectHistory", allLoans)

ShowLoanRepaymentHistory(w, chatID, loanID, F) ==
    LET got == GetLoanByID(w, chatID, loanID, F)
        rows == RepaymentsOf(w.repayments, chatID, loanID)
    IN  IF got.err
        THEN ShowMainMenu(SendMessage(w, chatID, "ErrLoanInfo", <<>>), chatID)
        ELSE IF "select_repayments" \in F
        THEN ShowMainMenu(SendMessage(w, chatID, "ErrHistory", <<>>), chatID)
        ELSE SendMessage(
                 SendMessage(w, chatID, "History", [i \in 1..Len(rows) |-> rows[i].amount]),
                 chatID, "BackToManage", <<>>)

----------------------------------------------------------------------------
(* Button presses.  Callback data is modelled as its segments between      *)
(* underscores: "edit_name_1" is <<"edit", "name", "1">>.                  *)

\* Menu callback data, src/main.go:28-46
MenuAddLoan == <<"menu", "addloan">>
MenuRepay == <<"menu", "repay">>
MenuBalance == <<"menu", "balance">>
MenuStats == <<"menu", "stats">>
MenuManage == <<"menu", "manage">>
MenuSearch == <<"menu", "search">>
SubMenuEdit == <<"submenu", "edit">>
SubMenuDelete == <<"submenu", "delete">>
SubMenuPartial == <<"submenu", "partial">>
SubMenuRepayments == <<"submenu", "repayments">>
SearchByName == <<"search", "by", "name">>
SearchByStatus == <<"search", "by", "status">>
SearchAll == <<"search", "all">>

\* strings.HasPrefix(data, prefix) for a prefix that ends with an underscore,
\* given as the segments before that underscore.
HasPrefix(data, prefix) ==
    Len(data) > Len(prefix) /\ SubSeq(data, 1, Len(prefix)) = prefix

RECURSIVE Join(_)
Join(segs) ==
    IF Len(segs) = 0 THEN ""
    ELSE IF Len(segs) = 1 THEN segs[1]
    ELSE segs[1] \o "_" \o Join(Tail(segs))

\* strings.TrimPrefix(data, prefix), as text
TrimPrefix(data, prefix) == Join(SubSeq(data, Len(prefix) + 1, Len(data)))

\* case "confirm_repay_": lines 860-898, after the id is parsed
ConfirmRepayByButton(w, chatID, loanID, F) ==
    LET got == GetLoanByID(w, chatID, loanID, F)
        loan == got.loan
    IN  IF got.err
        THEN ShowMainMenu(SendMessage(w, chatID, "ErrLoanInfo", <<>>), chatID)
        ELSE IF "update_repaid" \in F
        THEN ShowMainMenu(SendMessage(w, chatID, "ErrMarkRepaid", <<>>), chatID)
        ELSE LET w1 == UpdateRepaid(w, chatID, loanID)
                 \* a failed insert is logged only: the flag stays set
                 w2 == IF "insert_repayment" \in F THEN w1
                       ELSE InsertRepayment(w1, chatID, loanID, loan.amount, "full")
                 w3 == SendMessage(w2, chatID, "RepaidOK", <<loanID, loan.amount>>)
             IN  ShowMainMenu(w3, chatID)

\* case "confirm_delete_": lines 754-763, after the id is parsed
ConfirmDeleteByButton(w, chatID, loanID, F) ==
    LET res == DeleteLoan(w, chatID, loanID, F)
    IN  IF res.err
        THEN ShowMainMenu(SendMessage(res.w, chatID, "ErrDelete", <<>>), chatID)
        ELSE ShowMainMenu(SendMessage(res.w, chatID, "Deleted", <<loanID>>), chatID)

\* case "partial_": lines 776-798, after the id is parsed
SelectPartialByButton(w, chatID, loanIDStr, loanID, F) ==
    LET got == GetLoanByID(w, chatID, loanID, F)
        repaidAmount == GetTotalRepaidAmount(w, chatID, loanID, F)
        remainingAmount == got.loan.amount - repaidAmount
    IN  IF got.err
        THEN ShowMainMenu(SendMessage(w, chatID, "ErrLoanInfo", <<>>), chatID)
        ELSE LET w1 == SaveStateData(w, chatID, "loan_id", loanIDStr)
                 w2 == SaveStateData(w1, chatID, "remaining_amount", FormatInt(remainingAmount))
                 w3 == SetState(w2, chatID, OpPartialRepay, 1)
             IN  SendMessage(w3, chatID, "PromptPartialAmount", <<loanID, remainingAmount>>)

\* cases "edit_name_", "edit_amount_", "edit_purpose_"
SelectEditField(w, chatID, loanIDStr, field, promptTag) ==
    LET w1 == SaveStateData(w, chatID, "loan_id", loanIDStr)
        w2 == SaveStateData(w1, chatID, "edit_field", field)
        w3 == SetState(w2, chatID, OpEditLoan, 1)
    IN  SendMessage(w3, chatID, promptTag, <<>>)

\* A case that parses a loan id from the data and shows a keyboard for the loan.
ShowLoanKeyboard(w, chatID, loanIDStr, errTag, tag, F) ==
    LET loanID == Atoi(loanIDStr)
        got == GetLoanByID(w, chatID, loanID.val, F)
    IN  IF loanID.err
        THEN ShowMainMenu(SendMessage(w, chatID, errTag, <<>>), chatID)
        ELSE IF got.err
        THEN ShowMainMenu(SendMessage(w, chatID, "ErrLoanInfo", <<>>), chatID)
        ELSE SendMessage(w, chatID, tag, <<loanID.val>>)

\* The switch of HandleCallbackQuery: the first case that matches is taken.
HandleCallbackQuery(w, chatID, data, F) ==
    IF data = MenuAddLoan THEN StartAddLoanFlow(w, chatID)
    ELSE IF data = MenuRepay THEN StartRepayLoanFlow(w, chatID, F)
    ELSE IF data = MenuBalance THEN ShowBalance(w, chatID, F)
    ELSE IF data = MenuStats THEN ShowStats(w, chatID, F)
    ELSE IF data = MenuManage THEN ShowLoanManagementMenu(w, chatID)
    ELSE IF data = MenuSearch THEN ShowSearchMenu(w, chatID)
    ELSE IF data = <<"back", "to", "manage">> THEN ShowLoanManagementMenu(w, chatID)
    ELSE IF data = <<"back", "to", "search">> THEN ShowSearchMenu(w, chatID)
    ELSE IF data = <<"back", "to", "main">> THEN ShowMainMenu(w, chatID)
    ELSE IF data = <<"menu", "edit", "loan">> THEN StartEditLoanFlow(w, chatID, F)
    ELSE IF data = <<"menu", "delete", "loan">> THEN StartDeleteLoanFlow(w, chatID, F)
    ELSE IF data = <<"menu", "partial", "repay">> THEN StartPartialRepaymentFlow(w, chatID, F)
    ELSE IF data = <<"menu", "repayment", "history">> THEN ShowRepaymentHistory(w, chatID, F)
    ELSE IF data = <<"search", "by", "name">> THEN StartSearchByNameFlow(w, chatID)
    ELSE IF data = <<"search", "by", "status">> THEN StartSearchByStatusFlow(w, chatID)
    ELSE IF data = <<"search", "all", "loans">> THEN ShowAllLoans(w, chatID, F)
    ELSE IF data = <<"status", "active">> THEN ShowLoansByStatus(w, chatID, FALSE, F)
    ELSE IF data = <<"status", "repaid">> THEN ShowLoansByStatus(w, chatID, TRUE, F)
    ELSE IF HasPrefix(data, <<"edit">>)
         THEN ShowLoanKeyboard(w, chatID, TrimPrefix(data, <<"edit">>),
                               "ErrSelectLoan", "EditOptions", F)
    ELSE IF HasPrefix(data, <<"edit", "name">>)
         THEN SelectEditField(w, chatID, TrimPrefix(data, <<"edit", "name">>),
                              "name", "PromptNewName")
    ELSE IF HasPrefix(data, <<"edit", "amount">>)
         THEN SelectEditField(w, chatID, TrimPrefix(data, <<"edit", "amount">>),
                              "amount", "PromptNewAmount")
    ELSE IF HasPrefix(data, <<"edit", "purpose">>)
         THEN SelectEditField(w, chatID, TrimPrefix(data, <<"edit", "purpose">>),
                              "purpose", "PromptNewPurpose")
    ELSE IF HasPrefix(data, <<"delete">>)
         THEN ShowLoanKeyboard(w, chatID, TrimPrefix(data, <<"delete">>),
                               "ErrSelectLoan", "ConfirmDeletePrompt", F)
    ELSE IF HasPrefix(data, <<"confirm", "delete">>)
         THEN LET loanID == Atoi(TrimPrefix(data, <<"confirm", "delete">>))
              IN  IF loanID.err
                  THEN ShowMainMenu(SendMessage(w, chatID, "ErrDelete", <<>>), chatID)
                  ELSE ConfirmDeleteByButton(w, chatID, loanID.val, F)
    ELSE IF HasPrefix(data, <<"partial">>)
         THEN LET loanIDStr == TrimPrefix(data, <<"partial">>)
                  loanID == Atoi(loanIDStr)
              IN  IF loanID.err
                  THEN ShowMainMenu(SendMessage(w, chatID, "ErrSelectLoan", <<>>), chatID)
                  ELSE SelectPartialByButton(w, chatID, loanIDStr, loanID.val, F)
    ELSE IF HasPrefix(data, <<"history">>)
         THEN LET loanID == Atoi(TrimPrefix(data, <<"history">>))
              IN  IF loanID.err
                  THEN ShowMainMenu(SendMessage(w, chatID, "ErrViewHistory", <<>>), chatID)
                  ELSE ShowLoanRepaymentHistory(w, chatID, loanID.val, F)
    ELSE IF HasPrefix(data, <<"repay">>)
         THEN ShowLoanKeyboard(w, chatID, TrimPrefix(data, <<"repay">>),
                               "ErrSelectLoan", "ConfirmRepayKeyboard", F)
    ELSE IF HasPrefix(data, <<"confirm", "repay">>)
         THEN LET loanID == Atoi(TrimPrefix(data, <<"confirm", "repay">>))
              IN  IF loanID.err
                  THEN ShowMainMenu(SendMessage(w, chatID, "ErrConfirmRepay", <<>>), chatID)
                  ELSE ConfirmRepayByButton(w, chatID, loanID.val, F)
    ELSE ShowMainMenu(SendMessage(w, chatID, "UnknownCommand", <<>>), chatID)

----------------------------------------------------------------------------
(* Text messages *)

\* HandleMessage for a text that is not a command, lines 1397-1416
HandleText(w0, chatID, rawText, F) ==
    LET text == TrimSpace(rawText)
        w == GetState(w0, chatID)
        operation == w.userStates[chatID].Operation
    IN  CASE operation = OpAddLoan -> HandleAddLoanStep(w, chatID, text, F)
          [] operation = OpRepayLoan -> HandleRepayLoanStep(w, chatID, text, F)
          [] operation = OpEditLoan -> HandleEditLoanStep(w, chatID, text, F)
          [] operation = OpPartialRepay -> HandlePartialRepaymentStep(w, chatID, text, F)
          [] operation = OpSearchLoan -> HandleSearchStep(w, chatID, text, F)
          [] OTHER -> ShowMainMenu(w, chatID)

\* A command handler whose /start shows the menu and keeps the session.
HandleCommandKeepsState(w, chatID, command) ==
    IF command = "start" THEN ShowMainMenu(w, chatID)
    ELSE SendMessage(w, chatID, "UnknownSlashCommand", <<>>)

\* HandleMessage for a command, lines 1385-1395
HandleCommand(w, chatID, command) ==
    IF command = "start" THEN ShowMainMenu(ClearState(w, chatID), chatID)
    ELSE SendMessage(w, chatID, "UnknownSlashCommand", <<>>)

----------------------------------------------------------------------------
(* Inputs *)

Names == {"Ayan"}
Purposes == {"rent"}
Notes == {"-", "done"}
AmountTexts == {FormatInt(n) : n \in 0..MaxAmount}
LoanIDTexts == {FormatInt(n) : n \in 1..(MaxLoanID + 1)}

\* The texts a user types at the prompt of a session: one of each kind the
\* step tells apart (blank, not a number, numbers in and out of range, yes,
\* no, other) and the free texts it stores.
TextInputs(state) ==
    CASE state.Operation = OpAddLoan /\ state.Step = 0 -> {" "} \cup Names
      [] state.Operation = OpAddLoan /\ state.Step = 1 -> {" ", "Ayan", " 1 "} \cup AmountTexts
      [] state.Operation = OpAddLoan /\ state.Step = 2 -> {" "} \cup Purposes
      [] state.Operation = OpRepayLoan /\ state.Step = 0 -> {"Ayan"} \cup LoanIDTexts
      [] state.Operation = OpRepayLoan /\ state.Step = 1 -> {"da", "Da", "net", "Ayan"}
      [] state.Operation = OpEditLoan -> {"Maya"} \cup AmountTexts
      [] state.Operation = OpPartialRepay /\ state.Step = 1 ->
             {"Ayan", FormatInt(MaxAmount + 1)} \cup AmountTexts
      [] state.Operation = OpPartialRepay /\ state.Step = 2 -> Notes
      [] state.Operation = OpSearchLoan -> {"ay", "Maya", "rent"}
      [] OTHER -> {"Ayan"}

\* The storage statements a text handler issues, by flow.
TextStatements(state) ==
    CASE state.Operation = OpAddLoan /\ state.Step = 2 -> {"next_loan_id", "insert_loan"}
      [] state.Operation = OpRepayLoan /\ state.Step = 0 -> {"select_loan"}
      [] state.Operation = OpRepayLoan /\ state.Step = 1 -> {"update_repaid", "insert_repayment"}
      [] state.Operation = OpEditLoan -> {"update_loan"}
      [] state.Operation = OpPartialRepay /\ state.Step = 2 -> {"insert_repayment", "update_repaid"}
      [] state.Operation = OpSearchLoan -> {"search"}
      [] OTHER -> {}

Commands == {"start", "help"}

\* What follows a prefix in callback data: a loan id, or text that is no number.
Tails == {FormatInt(n) : n \in 1..MaxLoanID} \cup {"x"}

Tokens ==
    {MenuAddLoan, MenuRepay, MenuBalance, MenuStats, MenuManage, MenuSearch,
     SubMenuEdit, SubMenuDelete, SubMenuPartial, SubMenuRepayments,
     SearchByName, SearchByStatus, SearchAll,
     <<"back", "to", "manage">>, <<"back", "to", "search">>, <<"back", "to", "main">>,
     <<"menu", "edit", "loan">>, <<"menu", "delete", "loan">>,
     <<"menu", "partial", "repay">>, <<"menu", "repayment", "history">>,
     <<"search", "all", "loans">>, <<"status", "active">>, <<"status", "repaid">>,
     <<"junk">>}
    \cup {<<p, t>> : p \in {"edit", "delete", "partial", "history", "repay"}, t \in Tails}
    \cup {<<"edit", f, t>> : f \in {"name", "amount", "purpose"}, t \in Tails}
    \cup {<<"confirm", p, t>> : p \in {"delete", "repay"}, t \in Tails}

\* The storage statements the case of a callback issues.
TokenStatements(data) ==
    IF data \in {MenuRepay, MenuBalance, MenuStats, <<"menu", "edit", "loan">>,
                 <<"menu", "delete", "loan">>, <<"menu", "partial", "repay">>,
                 <<"menu", "repayment", "history">>, <<"search", "all", "loans">>,
                 <<"status", "active">>, <<"status", "repaid">>}
    THEN {"select_loans"}
    ELSE IF Len(data) < 2 THEN {}
    \* a tail that is no number is refused before any statement
    ELSE IF data[Len(data)] \notin Numerals THEN {}
    ELSE IF data[1] \in {"edit", "delete", "repay"} THEN {"select_loan"}
    ELSE IF data[1] = "partial" THEN {"select_loan", "sum_repaid"}
    ELSE IF data[1] = "history" THEN {"select_loan", "select_repayments"}
    ELSE IF data[1] = "confirm" /\ data[2] = "repay"
         THEN {"select_loan", "update_repaid", "insert_repayment"}
    ELSE IF data[1] = "confirm" /\ data[2] = "delete"
         THEN {"begin", "delete_repayments", "delete_loan", "commit"}
    ELSE {}

\* The outcomes of the storage statements of one handler: all succeed, or one fails.
Faults(statements) == {{}} \cup {{s} : s \in statements}

----------------------------------------------------------------------------
(* The state machine *)

\* No invocation is in progress: the update loop runs one handler to its end
\* before it takes the next update.
NoCalls == <<>>

Init ==
    /\ loans = {}
    /\ repayments = <<>>
    /\ userStates = [u \in Owners |-> NoState]
    /\ calls = NoCalls

\* The bounds of the model on what a handler leaves in the tables.
InBounds(w) ==
    /\ \A l \in w.loans : l.loan_id <= MaxLoanID
    /\ Len(w.repayments) <= MaxRepayments

\* Start: an update with a text that is no command
TextMessage(chatID, rawText, F) ==
    LET w == HandleText(World, chatID, rawText, F)
    IN  /\ InBounds(w)
        /\ loans' = w.loans
        /\ repayments' = w.repayments
        /\ userStates' = w.userStates
        /\ UNCHANGED calls

\* Start: an update with a command
CommandMessage(chatID, command) ==
    LET w == HandleCommand(World, chatID, command)
    IN  /\ loans' = w.loans
        /\ repayments' = w.repayments
        /\ userStates' = w.userStates
        /\ UNCHANGED calls

\* Start: an update with a callback query
ButtonPress(chatID, data, F) ==
    LET w == HandleCallbackQuery(World, chatID, data, F)
    IN  /\ InBounds(w)
        /\ loans' = w.loans
        /\ repayments' = w.repayments
        /\ userStates' = w.userStates
        /\ UNCHANGED calls

Next ==
    \/ \E chatID \in Owners :
         \E rawText \in TextInputs(userStates[chatID]) :
           \E F \in Faults(TextStatements(userStates[chatID])) :
             TextMessage(chatID, rawText, F)
    \/ \E chatID \in Owners, command \in Commands : CommandMessage(chatID, command)
    \/ \E chatID \in Owners, data \in Tokens :
         \E F \in Faults(TokenStatements(data)) : ButtonPress(chatID, data, F)

Spec == Init /\ [][Next]_vars

----------------------------------------------------------------------------
(* Properties of the ledger *)

\* principal minus the sum of the repayments recorded for the loan
RemainingBalance(ls, reps, chatID, loanID) ==
    (CHOOSE l \in ls : l.user_id = chatID /\ l.loan_id = loanID).amount
        - SumAmounts(RepaymentsOf(reps, chatID, loanID))

HasLoan(ls, chatID, loanID) == \E l \in ls : l.user_id = chatID /\ l.loan_id = loanID

HasActiveLoan(ls, chatID, loanID) ==
    \E l \in ls : l.user_id = chatID /\ l.loan_id = loanID /\ ~l.repaid

\* C1: in every reachable state the repayments recorded for a loan sum to at
\* most its principal, i.e. the remaining balance is never negative.
C1_RepaymentsWithinPrincipal ==
    \A l \in loans : RemainingBalance(loans, repayments, l.user_id, l.loan_id) >= 0

\* C2: in every reachable state, for every loan, the remaining balance is 0
\* if and only if the repaid flag is set.
C2_ZeroBalanceIffRepaid ==
    \A l \in loans :
        (RemainingBalance(loans, repayments, l.user_id, l.loan_id) = 0) <=> l.repaid

\* C3: every loan in the ledger has a principal greater than 0 (the add-loan
\* flow refuses an amount that is zero or negative).
C3_PrincipalPositive == \A l \in loans : l.amount > 0

----------------------------------------------------------------------------
(* Properties of the steps *)

IdleSession(state) == ~state.exists \/ state.Operation = OpNone

\* The messages that report the last step of a flow as done.
CompletionTags ==
    {"LoanRegistered", "RepaidOK", "RepayCancelled", "PartialPaidOff", "PartialRecorded",
     "NameChanged", "AmountChanged", "PurposeChanged", "Deleted", "SearchResults",
     "NothingFound"}

FlowCompleted(out) == \E i \in 1..Len(out) : out[i].tag \in CompletionTags

\* C4: a step that completes a flow (by text or by button) leaves the
\* owner's session idle, so that the next text is handled as idle input.
C4_SessionClearedOnCompletion ==
    [][\A chatID \in Owners :
         /\ \A data \in Tokens : \A F \in Faults(TokenStatements(data)) :
              (/\ ButtonPress(chatID, data, F)
               /\ FlowCompleted(HandleCallbackQuery(World, chatID, data, F).sent))
                  => IdleSession(userStates'[chatID])
         /\ \A rawText \in TextInputs(userStates[chatID]) :
              \A F \in Faults(TextStatements(userStates[chatID])) :
                (/\ TextMessage(chatID, rawText, F)
                 /\ FlowCompleted(HandleText(World, chatID, rawText, F).sent))
                    => IdleSession(userStates'[chatID])]_vars

\* The balance the partial-repay session holds since the loan was selected.
StagedRemaining(state) == ParseInt(MapGet(state.Data, "remaining_amount")).val

\* The loan a session has selected.
StagedLoanID(state) == Atoi(MapGet(state.Data, "loan_id")).val

\* The text does not pass the validation of the step the session is at: an
\* empty name or purpose, a text that is no number where an amount or a loan
\* number is asked, an amount that is not positive or is above the balance
\* the step compares with, an answer that is neither yes nor no.
FailsValidation(state, text) ==
    CASE state.Operation = OpAddLoan /\ state.Step = 0 -> text = ""
      [] state.Operation = OpAddLoan /\ state.Step = 1 -> text \notin Numerals
      [] state.Operation = OpAddLoan /\ state.Step = 2 -> text = ""
      [] state.Operation = OpRepayLoan /\ state.Step = 0 -> text \notin Numerals
      [] state.Operation = OpRepayLoan /\ state.Step = 1 -> ToLower(text) \notin {Yes, No}
      [] state.Operation = OpPartialRepay /\ state.Step = 1 ->
             \/ text \notin Numerals
             \/ ParseInt(text).val <= 0
             \/ ParseInt(text).val > StagedRemaining(state)
      [] OTHER -> FALSE

RepromptTags ==
    {"ErrEmptyName", "ErrBadAmount", "ErrEmptyPurpose", "ErrBadLoanNumber", "PromptYesNo",
     "ErrPositiveAmount", "ErrExceedsRemaining"}

ConfirmRepayTokens == {<<"confirm", "repay", FormatInt(n)>> : n \in 1..MaxLoanID}

\* The texts that confirm at step 1 of the repay flow.
ConfirmsRepay(state, rawText) ==
    /\ state.Operation = OpRepayLoan
    /\ state.Step = 1
    /\ ToLower(TrimSpace(rawText)) = Yes

\* Both writes of a full repayment of the loan are in the next state, or neither is.
BothOrNeither(chatID, loanID) ==
    \/ /\ loans' = loans
       /\ repayments' = repayments
    \/ /\ \E l \in loans' : l.user_id = chatID /\ l.loan_id = loanID /\ l.repaid
       /\ Len(repayments') = Len(repayments) + 1

\* C6: marking a loan fully repaid, by the text answer or by the confirm
\* button, sets the flag and inserts the repayment row together or does
\* neither, whichever storage statement fails.
C6_FullRepayAtomic ==
    [][\A chatID \in Owners :
         /\ \A data \in ConfirmRepayTokens : \A F \in Faults(TokenStatements(data)) :
              ButtonPress(chatID, data, F) => BothOrNeither(chatID, Atoi(data[3]).val)
         /\ \A rawText \in TextInputs(userStates[chatID]) :
              \A F \in Faults(TextStatements(userStates[chatID])) :
                (/\ ConfirmsRepay(userStates[chatID], rawText)
                 /\ TextMessage(chatID, rawText, F))
                    => BothOrNeither(chatID, StagedLoanID(userStates[chatID]))]_vars

\* The row a full repayment of an active loan with a balance left appends
\* carries the balance the loan had before the step.
FullRowIsRemaining(chatID, loanID) ==
    (/\ HasActiveLoan(loans, chatID, loanID)
     /\ RemainingBalance(loans, repayments, chatID, loanID) > 0
     /\ Len(repayments') = Len(repayments) + 1)
        => repayments'[Len(repayments')].amount
               = RemainingBalance(loans, repayments, chatID, loanID)

\* C7: the repayment row inserted when a loan is marked fully repaid has
\* the remaining balance of the loan (principal minus the repayments already
\* recorded) as its amount.
C7_FullRepayAmountIsRemaining ==
    [][\A chatID \in Owners :
         /\ \A data \in ConfirmRepayTokens : \A F \in Faults(TokenStatements(data)) :
              ButtonPress(chatID, data, F) => FullRowIsRemaining(chatID, Atoi(data[3]).val)
         /\ \A rawText \in TextInputs(userStates[chatID]) :
              \A F \in Faults(TextStatements(userStates[chatID])) :
                (/\ ConfirmsRepay(userStates[chatID], rawText)
                 /\ TextMessage(chatID, rawText, F))
                    => FullRowIsRemaining(chatID, StagedLoanID(userStates[chatID]))]_vars

NoLedgerWrite == loans' = loans /\ repayments' = repayments

\* C8: marking a loan fully repaid writes nothing to the ledger when the
\* owner has no active loan with that id, by text and by button; a repaid
\* loan gains no further repayment row.
C8_NoFullRepayWithoutActiveLoan ==
    [][\A chatID \in Owners :
         /\ \A data \in ConfirmRepayTokens : \A F \in Faults(TokenStatements(data)) :
              (/\ ~HasActiveLoan(loans, chatID, Atoi(data[3]).val)
               /\ ButtonPress(chatID, data, F))
                  => NoLedgerWrite
         /\ \A rawText \in TextInputs(userStates[chatID]) :
              \A F \in Faults(TextStatements(userStates[chatID])) :
                (/\ ConfirmsRepay(userStates[chatID], rawText)
                 /\ ~HasActiveLoan(loans, chatID, StagedLoanID(userStates[chatID]))
                 /\ TextMessage(chatID, rawText, F))
                    => NoLedgerWrite]_vars

\* The session is at the given step of partial-repay for a loan of the ledger.
AtPartialStep(state, chatID, step) ==
    /\ state.Operation = OpPartialRepay
    /\ state.Step = step
    /\ HasLoan(loans, chatID, StagedLoanID(state))

\* C9: a partial repayment above the balance the loan has in the ledger,
\* when the amount is sent and when the repayment is recorded, is refused:
\* the session does not advance and the ledger is not written.
C9_PartialAboveBalanceRejected ==
    [][\A chatID \in Owners : \A rawText \in TextInputs(userStates[chatID]) :
         \A F \in Faults(TextStatements(userStates[chatID])) :
           LET state == userStates[chatID]
               balance == RemainingBalance(loans, repayments, chatID, StagedLoanID(state))
           IN  /\ (/\ AtPartialStep(state, chatID, 1)
                   /\ TrimSpace(rawText) \in Numerals
                   /\ ParseInt(TrimSpace(rawText)).val > balance
                   /\ TextMessage(chatID, rawText, F))
                      => UNCHANGED vars
               /\ (/\ AtPartialStep(state, chatID, 2)
                   /\ ParseInt(MapGet(state.Data, "repayment_amount")).val > balance
                   /\ TextMessage(chatID, rawText, F))
                      => NoLedgerWrite]_vars

\* C10: when a partial repayment is recorded and the loan's balance is 0
\* with it, the loan is marked repaid in the same step, whichever storage
\* statement fails.
C10_PartialToZeroSetsFlag ==
    [][\A chatID \in Owners : \A rawText \in TextInputs(userStates[chatID]) :
         \A F \in Faults(TextStatements(userStates[chatID])) :
           LET state == userStates[chatID]
               loanID == StagedLoanID(state)
           IN  (/\ AtPartialStep(state, chatID, 2)
                /\ TextMessage(chatID, rawText, F)
                /\ Len(repayments') = Len(repayments) + 1
                /\ RemainingBalance(loans', repayments', chatID, loanID) = 0)
                   => \A l \in loans' :
                        (l.user_id = chatID /\ l.loan_id = loanID) => l.repaid]_vars

----------------------------------------------------------------------------
(* Properties of DeleteLoan *)

DeleteStatements == {"begin", "delete_repayments", "delete_loan", "commit"}

ConfirmDeleteToken(loanID) == <<"confirm", "delete", FormatInt(loanID)>>

HasTag(out, tag) == \E i \in 1..Len(out) : out[i].tag = tag

\* C11: when a statement of DeleteLoan or its commit fails, DeleteLoan
\* returns the error and the loan and its repayments are as before the call;
\* the confirm button then reports the failure and the ledger is unchanged.
C11_DeleteLoanAllOrNothing ==
    \A chatID \in Owners : \A loanID \in 1..MaxLoanID :
        \A F \in Faults(DeleteStatements) \ {{}} :
            LET res == DeleteLoan(World, chatID, loanID, F)
                w == HandleCallbackQuery(World, chatID, ConfirmDeleteToken(loanID), F)
            IN  /\ res.err
                /\ res.w.loans = loans
                /\ res.w.repayments = repayments
                /\ HasTag(w.sent, "ErrDelete")
                /\ w.loans = loans
                /\ w.repayments = repayments

\* A loan with a repayment recorded, whose deletion has failed at the
\* DELETE of the loan row and which is in the ledger with its repayment.
C11_FailedDeleteKeepsLoanAndRows ==
    \E chatID \in Owners : \E loanID \in 1..MaxLoanID :
        /\ HasLoan(loans, chatID, loanID)
        /\ Len(RepaymentsOf(repayments, chatID, loanID)) > 0
        /\ DeleteLoan(World, chatID, loanID, {"delete_loan"}).err
        /\ HasLoan(DeleteLoan(World, chatID, loanID, {"delete_loan"}).w.loans, chatID, loanID)

\* C12: after a DeleteLoan that succeeds the ledger holds neither the loan
\* nor a repayment row of it, and a lookup of that id fails as not found;
\* the same after the confirm button has reported the deletion.
C12_DeletedLoanIsGone ==
    \A chatID \in Owners : \A loanID \in 1..MaxLoanID :
        LET res == DeleteLoan(World, chatID, loanID, {})
            w == HandleCallbackQuery(World, chatID, ConfirmDeleteToken(loanID), {})
        IN  /\ ~res.err
            /\ ~HasLoan(res.w.loans, chatID, loanID)
            /\ RepaymentsOf(res.w.repayments, chatID, loanID) = <<>>
            /\ GetLoanByID(res.w, chatID, loanID, {}).err
            /\ HasTag(w.sent, "Deleted")
            /\ ~HasLoan(w.loans, chatID, loanID)
            /\ RepaymentsOf(w.repayments, chatID, loanID) = <<>>
            /\ GetLoanByID(w, chatID, loanID, {}).err

\* A loan with a repayment recorded, which the confirm button deletes with
\* its repayment.
C12_DeleteOfLoanWithRows ==
    \E chatID \in Owners : \E loanID \in 1..MaxLoanID :
        /\ HasLoan(loans, chatID, loanID)
        /\ Len(RepaymentsOf(repayments, chatID, loanID)) > 0
        /\ LET w == HandleCallbackQuery(World, chatID, ConfirmDeleteToken(loanID), {})
           IN  /\ HasTag(w.sent, "Deleted")
               /\ w.loans = {}
               /\ w.repayments = <<>>

----------------------------------------------------------------------------
(* Properties of CreateLoan *)

\* C13: a loan that a step has just created has no repayment row and a
\* remaining balance equal to its principal, whatever was created, repaid
\* and deleted before (its id may be the id of a deleted loan).
C13_NewLoanHasFullBalance ==
    [][\A l \in loans' :
         ~HasLoan(loans, l.user_id, l.loan_id) =>
             /\ RepaymentsOf(repayments', l.user_id, l.loan_id) = <<>>
             /\ RemainingBalance(loans', repayments', l.user_id, l.loan_id) = l.amount]_vars

----------------------------------------------------------------------------
(* Loan ids: two owners who create and delete loans *)

NumAllocOwners == 2   \* chat ids 1..NumAllocOwners
MaxAllocID == 3       \* loans are created while the allocated id is <= this

AllocOwners == 1..NumAllocOwners

\* The texts typed in the add-loan flow: a name, an amount, a purpose.
AllocTextInputs(state) ==
    CASE state.Operation = OpAddLoan /\ state.Step = 0 -> Names
      [] state.Operation = OpAddLoan /\ state.Step = 1 -> {"1"}
      [] state.Operation = OpAddLoan /\ state.Step = 2 -> Purposes
      [] OTHER -> {}

\* The buttons pressed: start add-loan, confirm the deletion of a loan.
AllocTokens == {MenuAddLoan} \cup {ConfirmDeleteToken(n) : n \in 1..MaxAllocID}

AllocInit ==
    /\ loans = {}
    /\ repayments = <<>>
    /\ userStates = [u \in AllocOwners |-> NoState]
    /\ calls = NoCalls

AllocBounds(w) == \A l \in w.loans : l.loan_id <= MaxAllocID

AllocText(chatID, rawText, F) ==
    LET w == HandleText(World, chatID, rawText, F)
    IN  /\ AllocBounds(w)
        /\ loans' = w.loans
        /\ repayments' = w.repayments
        /\ userStates' = w.userStates
        /\ UNCHANGED calls

AllocButton(chatID, data, F) ==
    LET w == HandleCallbackQuery(World, chatID, data, F)
    IN  /\ AllocBounds(w)
        /\ loans' = w.loans
        /\ repayments' = w.repayments
        /\ userStates' = w.userStates
        /\ UNCHANGED calls

AllocNext ==
    \/ \E chatID \in AllocOwners : \E rawText \in AllocTextInputs(userStates[chatID]) :
         \E F \in Faults(TextStatements(userStates[chatID])) : AllocText(chatID, rawText, F)
    \/ \E chatID \in AllocOwners : \E data \in AllocTokens :
         \E F \in Faults(TokenStatements(data)) : AllocButton(chatID, data, F)

SpecAlloc == AllocInit /\ [][AllocNext]_vars

\* The ids of the owner's loans.
LoanIDsOf(ls, chatID) == {l.loan_id : l \in {x \in ls : x.user_id = chatID}}

\* The greatest of the ids, 0 when there is none.
MaxID(ids) == IF ids = {} THEN 0 ELSE CHOOSE m \in ids : \A i \in ids : i <= m

\* C14: the purpose step of add-loan, when it creates a loan, adds exactly
\* one row for the owner with id = the owner's greatest loan id + 1 (1 when
\* the owner has none) and repaid = false, and it creates one whenever no
\* statement fails; loan ids are unique within each owner in every state.
C14_LoanIDIsMaxPlusOne ==
    /\ \A l1, l2 \in loans :
         (l1.user_id = l2.user_id /\ l1.loan_id = l2.loan_id) => l1 = l2
    /\ \A chatID \in AllocOwners : \A rawText \in AllocTextInputs(userStates[chatID]) :
         \A F \in Faults(TextStatements(userStates[chatID])) :
           LET w == HandleText(World, chatID, rawText, F)
               new == w.loans \ loans
           IN  /\ loans \subseteq w.loans
               /\ (userStates[chatID].Step = 2 /\ F = {}) => new /= {}
               /\ new /= {} =>
                    \E row \in new :
                        /\ new = {row}
                        /\ row.user_id = chatID
                        /\ row.loan_id = MaxID(LoanIDsOf(loans, chatID)) + 1
                        /\ ~row.repaid

\* An owner whose only loan has id 2, at the purpose step, is given loan 3,
\* while the other owner has a loan 1 of their own.
C14_ThirdIdAfterDeletion ==
    \E chatID \in AllocOwners :
        /\ LoanIDsOf(loans, chatID) = {2}
        /\ \E other \in AllocOwners \ {chatID} : 1 \in LoanIDsOf(loans, other)
        /\ userStates[chatID].Operation = OpAddLoan
        /\ userStates[chatID].Step = 2
        /\ LoanIDsOf(HandleText(World, chatID, "rent", {}).loans, chatID) = {2, 3}

----------------------------------------------------------------------------
(* Two completions of add-loan for one owner, interleaved at the database. *)
(* Each runs in a bot process of its own, with its own session record for  *)
(* the owner, against the same tables: calls[k] is the k-th completion.    *)

NumRaceWorkers == 2

RaceWorkers == 1..NumRaceWorkers

RaceOwner == 1

\* The session of a completion before its purpose step: name and amount staged.
StagedAddLoan(amountText) ==
    [exists |-> TRUE, Operation |-> OpAddLoan, Step |-> 2,
     Data |-> [borrower_name |-> "Ayan", amount |-> amountText]]

\* The world the k-th completion works on: the shared tables, its own session.
WorkerWorld(k) ==
    [loans |-> loans, repayments |-> repayments,
     userStates |-> [c \in {RaceOwner} |-> calls[k].state], sent |-> calls[k].out]

\* INSERT INTO loans with no primary key on the table.
InsertLoanNoKey(w, row, F) ==
    IF "insert_loan" \in F THEN [err |-> TRUE, w |-> w]
    ELSE [err |-> FALSE, w |-> [w EXCEPT !.loans = w.loans \cup {row}]]

\* INSERT INTO loans: fails on a storage error and on PRIMARY KEY (user_id, loan_id)
InsertLoan(w, row, F) ==
    IF "insert_loan" \in F \/ LoanRows(w, row.user_id, row.loan_id) /= {}
    THEN [err |-> TRUE, w |-> w]
    ELSE [err |-> FALSE, w |-> [w EXCEPT !.loans = w.loans \cup {row}]]

\* Lines 270-280 of HandleAddLoanStep: stage the purpose, query the next id.
AddLoanReadID(w, chatID, text, F) ==
    LET w1 == SaveStateData(w, chatID, "purpose", text)
    IN  IF "next_loan_id" \in F
        THEN [err |-> TRUE, id |-> 0, w |-> SendMessage(w1, chatID, "ErrLoanID", <<>>)]
        ELSE [err |-> FALSE, id |-> NextLoanID(w1, chatID), w |-> w1]

\* Lines 282-317 of HandleAddLoanStep: insert the row, report, clear the session.
AddLoanInsert(w, chatID, newLoanID, F) ==
    LET data == w.userStates[chatID].Data
        row == [user_id |-> chatID, loan_id |-> newLoanID,
                borrower_name |-> MapGet(data, "borrower_name"),
                amount |-> ParseInt(MapGet(data, "amount")).val,
                purpose |-> MapGet(data, "purpose"),
                repaid |-> FALSE]
        res == InsertLoan(w, row, F)
    IN  IF res.err
        THEN [err |-> TRUE, w |-> SendMessage(w, chatID, "ErrInsertLoan", <<>>)]
        ELSE [err |-> FALSE,
              w |-> ShowMainMenu(ClearState(
                        SendMessage(res.w, chatID, "LoanRegistered", <<newLoanID>>),
                        chatID), chatID)]

RaceInit ==
    /\ loans \in {{}, {[user_id |-> RaceOwner, loan_id |-> 1, borrower_name |-> "Ayan",
                        amount |-> 1, purpose |-> "rent", repaid |-> FALSE]}}
    /\ repayments = <<>>
    /\ userStates = [u \in Owners |-> NoState]
    /\ calls \in [RaceWorkers ->
                    {[pc |-> "purpose", state |-> StagedAddLoan(a), newLoanID |-> 0,
                      amount |-> a, purpose |-> "", out |-> <<>>] : a \in {"1", "2"}}]

\* The k-th completion receives the purpose and reads the next loan id.
RaceReadID(k, text, F) ==
    LET res == AddLoanReadID(WorkerWorld(k), RaceOwner, text, F)
    IN  /\ calls[k].pc = "purpose"
        /\ calls' = [calls EXCEPT ![k] =
               [pc |-> IF res.err THEN "done" ELSE "insert",
                state |-> res.w.userStates[RaceOwner],
                newLoanID |-> res.id,
                amount |-> calls[k].amount,
                purpose |-> text,
                out |-> res.w.sent]]
        /\ UNCHANGED <<loans, repayments, userStates>>

\* The k-th completion inserts its row with the id it has read.
RaceInsert(k, F) ==
    LET res == AddLoanInsert(WorkerWorld(k), RaceOwner, calls[k].newLoanID, F)
    IN  /\ calls[k].pc = "insert"
        /\ loans' = res.w.loans
        /\ calls' = [calls EXCEPT ![k].pc = "done",
                                  ![k].state = res.w.userStates[RaceOwner],
                                  ![k].out = res.w.sent]
        /\ UNCHANGED <<repayments, userStates>>

RaceNext ==
    \/ \E k \in RaceWorkers : \E text \in {"rent", "car"} :
         \E F \in Faults({"next_loan_id"}) : RaceReadID(k, text, F)
    \/ \E k \in RaceWorkers : \E F \in Faults({"insert_loan"}) : RaceInsert(k, F)

SpecRace == RaceInit /\ [][RaceNext]_vars

\* The k-th completion has told its user that the loan is registered.
ReportsSuccess(k) == calls[k].pc = "done" /\ HasTag(calls[k].out, "LoanRegistered")

\* The k-th completion has told its user that the loan could not be registered.
ReportsFailure(k) ==
    /\ calls[k].pc = "done"
    /\ HasTag(calls[k].out, "ErrInsertLoan") \/ HasTag(calls[k].out, "ErrLoanID")

\* The row the k-th completion was asked to create, under the id it read.
RowOf(k) ==
    [user_id |-> RaceOwner, loan_id |-> calls[k].newLoanID,
     borrower_name |-> "Ayan", amount |-> ParseInt(calls[k].amount).val,
     purpose |-> calls[k].purpose, repaid |-> FALSE]

\* C15: when add-loan completions of one owner interleave, every completion
\* ends with a report; one that reports success has its own row in the
\* ledger under the id it read; two that report success have two rows with
\* different ids; so of two that read the same id at most one succeeds and
\* the other reports the failure of its insert.  No id is held by two rows.
C15_DuplicateIdIsDetected ==
    /\ \A l1, l2 \in loans :
         (l1.user_id = l2.user_id /\ l1.loan_id = l2.loan_id) => l1 = l2
    /\ \A k \in RaceWorkers :
         /\ calls[k].pc = "done" => ReportsSuccess(k) \/ ReportsFailure(k)
         /\ ReportsSuccess(k) => (RowOf(k) \in loans /\ ~ReportsFailure(k))
    /\ \A j, k \in RaceWorkers :
         (j /= k /\ ReportsSuccess(j) /\ ReportsSuccess(k)) =>
             calls[j].newLoanID /= calls[k].newLoanID

\* Two completions have read the same id; one has registered its loan and
\* the other has reported that its insert failed.
C15_SecondInsertRefused ==
    \E j, k \in RaceWorkers :
        /\ j /= k
        /\ calls[j].newLoanID = calls[k].newLoanID
        /\ calls[j].newLoanID > 0
        /\ ReportsSuccess(j)
        /\ calls[k].pc = "done"
        /\ HasTag(calls[k].out, "ErrInsertLoan")
        /\ Cardinality({l \in loans : l.loan_id = calls[j].newLoanID}) = 1

----------------------------------------------------------------------------
(* The session store under concurrent callers for one owner.  Here         *)
(* userStates[u] is the map entry itself, a pointer to a UserState: ref    *)
(* names the object, calls.heap holds the objects' fields, calls.lock is   *)
(* the holder of stateMutex for writing (0 when free), and calls.w[k] is   *)
(* the k-th caller.  Object 0 is the record in the map at the start;       *)
(* object k is the one caller k allocates.                                 *)

NumStoreWorkers == 2

StoreWorkers == 1..NumStoreWorkers

StoreOwner == 1

\* The argument pairs of the SetState calls in flight.
StoreWrites == {<<OpAddLoan, 2>>, <<OpRepayLoan, 0>>}

\* The record an earlier SetState(OpAddLoan, 1) left in the map.
StoreEarlier == [Operation |-> OpAddLoan, Step |-> 1, Data |-> [borrower_name |-> "Ayan"]]

\* &UserState{Operation: OpNone, Step: 0, Data: make(map[string]string)}
IdleRecord == [Operation |-> OpNone, Step |-> 0, Data |-> EmptyData]

StoreKeys == {"amount", "purpose"}

\* What a caller runs: the dispatch of a text message (GetState and a read
\* of Operation, then the flow handler's GetState and a read of Step), one
\* SetState, or one SaveStateData.
StorePrograms ==
    {[prog |-> "HandleMessage", pc |-> "get1", operation |-> OpNone, step |-> 0, key |-> ""]}
    \cup {[prog |-> "SetState", pc |-> "lock", operation |-> p[1], step |-> p[2], key |-> ""] :
              p \in StoreWrites}
    \cup {[prog |-> "SaveStateData", pc |-> "lock", operation |-> OpNone, step |-> 0, key |-> key] :
              key \in StoreKeys}

StoreCall(p) ==
    [prog |-> p.prog, pc |-> p.pc, operation |-> p.operation, step |-> p.step,
     key |-> p.key, ref |-> 0, tagSeen |-> OpNone, stepSeen |-> 0]

StoreInit ==
    /\ loans = {}
    /\ repayments = <<>>
    /\ userStates \in {[u \in Owners |-> [exists |-> FALSE, ref |-> 0]],
                       [u \in Owners |-> [exists |-> (u = StoreOwner), ref |-> 0]]}
    /\ \E progs \in [StoreWorkers -> StorePrograms] :
         calls = [lock |-> 0,
                  heap |-> [r \in 0..NumStoreWorkers |->
                               IF r = 0 THEN StoreEarlier ELSE IdleRecord],
                  w |-> [k \in StoreWorkers |-> StoreCall(progs[k])]]

\* The pc after a GetState that started at pc.
AfterGet(pc) == IF pc \in {"get1", "install1"} THEN "read_op" ELSE "read_step"

\* GetState, lines 76-78: the map lookup under RLock.  A caller that finds
\* no entry goes on to allocate one (lines 80-86).
StoreGetRead(k) ==
    LET c == calls.w[k]
        entry == userStates[StoreOwner]
    IN  /\ c.pc \in {"get1", "get2"}
        /\ calls.lock = 0
        /\ calls' = [calls EXCEPT
               !.w[k].ref = IF entry.exists THEN entry.ref ELSE k,
               !.w[k].pc = IF entry.exists THEN AfterGet(c.pc)
                           ELSE IF c.pc = "get1" THEN "install1" ELSE "install2",
               !.heap[k] = IF entry.exists THEN @ ELSE IdleRecord]
        /\ UNCHANGED <<loans, repayments, userStates>>

\* GetState, lines 87-89: the new record is stored in the map under Lock.
StoreGetInstall(k) ==
    LET c == calls.w[k]
    IN  /\ c.pc \in {"install1", "install2"}
        /\ calls.lock = 0
        /\ userStates' = [userStates EXCEPT ![StoreOwner] = [exists |-> TRUE, ref |-> k]]
        /\ calls' = [calls EXCEPT !.w[k].pc = AfterGet(c.pc)]
        /\ UNCHANGED <<loans, repayments>>

\* HandleMessage, line 1400: state.Operation read through the pointer.
StoreReadOperation(k) ==
    /\ calls.w[k].pc = "read_op"
    /\ calls' = [calls EXCEPT !.w[k].tagSeen = calls.heap[calls.w[k].ref].Operation,
                              !.w[k].pc = "get2"]
    /\ UNCHANGED <<loans, repayments, userStates>>

\* The flow handler, line 240: state.Step read through the pointer.
StoreReadStep(k) ==
    /\ calls.w[k].pc = "read_step"
    /\ calls' = [calls EXCEPT !.w[k].stepSeen = calls.heap[calls.w[k].ref].Step,
                              !.w[k].pc = "done"]
    /\ UNCHANGED <<loans, repayments, userStates>>

\* SetState, lines 97-106: Lock, lookup, a zero record stored when absent.
StoreSetLock(k) ==
    LET c == calls.w[k]
        entry == userStates[StoreOwner]
    IN  /\ c.prog = "SetState" /\ c.pc = "lock"
        /\ calls.lock = 0
        /\ userStates' = [userStates EXCEPT ![StoreOwner] =
               IF entry.exists THEN entry ELSE [exists |-> TRUE, ref |-> k]]
        /\ calls' = [calls EXCEPT
               !.lock = k,
               !.w[k].ref = IF entry.exists THEN entry.ref ELSE k,
               !.w[k].pc = "set_op",
               !.heap[k] = IF entry.exists THEN @ ELSE IdleRecord]
        /\ UNCHANGED <<loans, repayments>>

\* SetState, line 108.
StoreSetOperation(k) ==
    LET c == calls.w[k]
    IN  /\ c.pc = "set_op"
        /\ calls' = [calls EXCEPT !.heap[c.ref].Operation = c.operation,
                                  !.w[k].pc = "set_step"]
        /\ UNCHANGED <<loans, repayments, userStates>>

\* SetState, lines 109-110 and the deferred Unlock.
StoreSetStep(k) ==
    LET c == calls.w[k]
    IN  /\ c.pc = "set_step"
        /\ calls' = [calls EXCEPT !.heap[c.ref].Step = c.step,
                                  !.lock = 0,
                                  !.w[k].pc = "done"]
        /\ UNCHANGED <<loans, repayments, userStates>>

\* SaveStateData, lines 123-140, one critical section.
StoreSaveData(k) ==
    LET c == calls.w[k]
        entry == userStates[StoreOwner]
        r == IF entry.exists THEN entry.ref ELSE k
        old == IF entry.exists THEN calls.heap[r] ELSE IdleRecord
    IN  /\ c.prog = "SaveStateData" /\ c.pc = "lock"
        /\ calls.lock = 0
        /\ userStates' = [userStates EXCEPT ![StoreOwner] = [exists |-> TRUE, ref |-> r]]
        /\ calls' = [calls EXCEPT
               !.w[k].ref = r,
               !.w[k].pc = "done",
               !.heap[r] = [old EXCEPT !.Data = MapPut(old.Data, c.key, "v")]]
        /\ UNCHANGED <<loans, repayments>>

StoreNext ==
    \/ \E k \in StoreWorkers : StoreGetRead(k)
    \/ \E k \in StoreWorkers : StoreGetInstall(k)
    \/ \E k \in StoreWorkers : StoreReadOperation(k)
    \/ \E k \in StoreWorkers : StoreReadStep(k)
    \/ \E k \in StoreWorkers : StoreSetLock(k)
    \/ \E k \in StoreWorkers : StoreSetOperation(k)
    \/ \E k \in StoreWorkers : StoreSetStep(k)
    \/ \E k \in StoreWorkers : StoreSaveData(k)

SpecStore == StoreInit /\ [][StoreNext]_vars

\* The record the map holds for the owner.
StoreRecord == calls.heap[userStates[StoreOwner].ref]

\* Caller k has been handed a record by the store.
HoldsRecord(k) ==
    calls.w[k].pc \in {"read_op", "get2", "read_step", "set_op", "set_step", "done"}

\* C16: under concurrent GetState, SetState and SaveStateData for one owner
\* every caller that has been handed a record holds the record the map
\* holds, a value saved by a finished SaveStateData is in that record, and
\* while no SetState is writing, once one has finished the record carries
\* the tag and step of a SetState call.
C16_NoLostUpdate ==
    /\ \A k \in StoreWorkers :
         HoldsRecord(k) =>
             /\ userStates[StoreOwner].exists
             /\ calls.w[k].ref = userStates[StoreOwner].ref
    /\ \A k \in StoreWorkers :
         (calls.w[k].prog = "SaveStateData" /\ calls.w[k].pc = "done") =>
             calls.w[k].key \in DOMAIN StoreRecord.Data
    /\ \A k \in StoreWorkers :
         (calls.w[k].prog = "SetState" /\ calls.w[k].pc = "done" /\ calls.lock = 0) =>
             <<StoreRecord.Operation, StoreRecord.Step>> \in StoreWrites

\* The (tag, step) pairs some single call has written: the idle record of a
\* get-or-create, the record of the earlier SetState, the SetState calls.
WrittenPairs ==
    {<<OpNone, 0>>, <<StoreEarlier.Operation, StoreEarlier.Step>>} \cup StoreWrites

\* C17: the tag and the step a caller has read while handling one event
\* were written together by one call.
C17_NoTornRead ==
    \A k \in StoreWorkers :
        (calls.w[k].prog = "HandleMessage" /\ calls.w[k].pc = "done") =>
            <<calls.w[k].tagSeen, calls.w[k].stepSeen>> \in WrittenPairs

----------------------------------------------------------------------------
(* Properties of commands, unknown input and storage failures *)

\* A session with a flow in progress.
ActiveFlow(state) == state.exists /\ state.Operation /= OpNone

\* C18: /start, in whatever state the session is, removes the owner's
\* session record, leaves every other record and the ledger as they were
\* and shows the main menu; whatever text comes next is answered by the
\* main menu alone and writes nothing.
C18_StartDestroysSession ==
    \A chatID \in Owners :
        LET w == HandleCommand(World, chatID, "start")
        IN  /\ w.userStates[chatID] = NoState
            /\ \A u \in Owners \ {chatID} : w.userStates[u] = userStates[u]
            /\ w.loans = loans
            /\ w.repayments = repayments
            /\ HasTag(w.sent, "MainMenu")
            /\ \A rawText \in TextInputs(userStates[chatID]) :
                 \A F \in Faults(TextStatements(userStates[chatID])) :
                   LET w2 == HandleText([w EXCEPT !.sent = <<>>], chatID, rawText, F)
                   IN  /\ w2.loans = loans
                       /\ w2.repayments = repayments
                       /\ IdleSession(w2.userStates[chatID])
                       /\ Len(w2.sent) = 1
                       /\ w2.sent[1].tag = "MainMenu"

\* A flow past its first step, over a ledger with a loan, whose next text
\* would write the ledger: /start removes the record and the same text
\* then writes nothing.
C18_StartInsideFlow ==
    \E chatID \in Owners :
        /\ ActiveFlow(userStates[chatID])
        /\ userStates[chatID].Step >= 1
        /\ userStates[chatID].Data /= EmptyData
        /\ loans /= {}
        /\ \E rawText \in TextInputs(userStates[chatID]) :
             /\ HandleText(World, chatID, rawText, {}).repayments /= repayments
             /\ HandleText(HandleCommand(World, chatID, "start"),
                           chatID, rawText, {}).repayments = repayments
        /\ ~HandleCommand(World, chatID, "start").userStates[chatID].exists

\* C19: while a flow is active, a button token no case matches and a command
\* other than /start are answered by the message for unknown input and leave
\* the owner's session idle.
C19_UnknownInputResetsSession ==
    \A chatID \in Owners :
        ActiveFlow(userStates[chatID]) =>
            LET wb == HandleCallbackQuery(World, chatID, <<"junk">>, {})
                wc == HandleCommand(World, chatID, "help")
            IN  /\ HasTag(wb.sent, "UnknownCommand")
                /\ IdleSession(wb.userStates[chatID])
                /\ HasTag(wc.sent, "UnknownSlashCommand")
                /\ IdleSession(wc.userStates[chatID])

\* The messages that report a failed statement of a flow step.
StorageErrorTags ==
    {"ErrLoanID", "ErrInsertLoan", "ErrCheckLoan", "ErrMarkRepaid", "ErrUpdateName",
     "ErrUpdateAmount", "ErrUpdatePurpose", "ErrRecordPartial", "ErrSearch"}

\* C20: when a statement of a flow step fails, so that the step does not end
\* as it does without the failure, the user is sent a failure message and the
\* owner's session is idle afterwards.
C20_StorageErrorAbortsFlow ==
    \A chatID \in Owners : \A rawText \in TextInputs(userStates[chatID]) :
        \A F \in Faults(TextStatements(userStates[chatID])) \ {{}} :
            LET w == HandleText(World, chatID, rawText, F)
            IN  w /= HandleText(World, chatID, rawText, {}) =>
                    /\ \E i \in 1..Len(w.sent) : w.sent[i].tag \in StorageErrorTags
                    /\ IdleSession(w.userStates[chatID])

----------------------------------------------------------------------------
(* Properties of the flows *)

\* The messages that tell the user the loan was not found or is not active.
NotFoundTags == {"ErrCheckLoan", "ErrNotFoundOrRepaid", "ErrLoanInfo"}

\* C21: a loan number typed at the selection step of the repay flow, or
\* chosen by a repay_<id> button, that names no loan of the owner or a loan
\* already repaid, is answered by a message saying so, writes nothing and
\* leaves the owner's session idle.
C21_BadLoanIDAbortsFlow ==
    \A chatID \in Owners :
        (userStates[chatID].Operation = OpRepayLoan /\ userStates[chatID].Step = 0) =>
            \A n \in 1..(MaxLoanID + 1) :
                ~HasActiveLoan(loans, chatID, n) =>
                    LET wt == HandleText(World, chatID, FormatInt(n), {})
                        wb == HandleCallbackQuery(World, chatID, <<"repay", FormatInt(n)>>, {})
                    IN  /\ \E i \in 1..Len(wt.sent) : wt.sent[i].tag \in NotFoundTags
                        /\ wt.loans = loans /\ wt.repayments = repayments
                        /\ IdleSession(wt.userStates[chatID])
                        /\ \E i \in 1..Len(wb.sent) : wb.sent[i].tag \in NotFoundTags
                        /\ wb.loans = loans /\ wb.repayments = repayments
                        /\ IdleSession(wb.userStates[chatID])

\* C22: in the repay flow the answer "no", typed at the confirmation step or
\* given by the cancel button of the confirmation keyboard, writes nothing
\* and leaves the owner's session idle; the answer "yes", typed or given by
\* the confirm button, leaves the session idle as well.
C22_RepayAnswerEndsFlow ==
    \A chatID \in Owners :
        userStates[chatID].Operation = OpRepayLoan =>
            /\ userStates[chatID].Step = 1 =>
                 LET wn == HandleText(World, chatID, No, {})
                     wy == HandleText(World, chatID, Yes, {})
                 IN  /\ wn.loans = loans /\ wn.repayments = repayments
                     /\ IdleSession(wn.userStates[chatID])
                     /\ IdleSession(wy.userStates[chatID])
            /\ \A n \in 1..MaxLoanID :
                 HasActiveLoan(loans, chatID, n) =>
                     LET wk == HandleCallbackQuery(World, chatID, <<"repay", FormatInt(n)>>, {})
                         wn == HandleCallbackQuery(wk, chatID, <<"back", "to", "main">>, {})
                         wy == HandleCallbackQuery(wk, chatID,
                                                   <<"confirm", "repay", FormatInt(n)>>, {})
                     IN  /\ wn.loans = loans /\ wn.repayments = repayments
                         /\ IdleSession(wn.userStates[chatID])
                         /\ IdleSession(wy.userStates[chatID])

\* The field of a loan row that an edit_<field>_<id> token names.
EditColumn(l, field) ==
    CASE field = "name" -> l.borrower_name
      [] field = "amount" -> FormatInt(l.amount)
      [] field = "purpose" -> l.purpose

\* A text the validation of the field accepts.
EditValue(field) == IF field = "amount" THEN FormatInt(MaxAmount) ELSE "Maya"

\* C23: for a loan of the owner, the token edit_<id> followed by a token
\* edit_name_<id>, edit_amount_<id> or edit_purpose_<id> puts the session in
\* edit-loan at step 1 with the loan id and the field staged, and a valid
\* text then sets that field of that loan and leaves the session idle.
C23_EditFlowReachesValueStep ==
    \A chatID \in Owners : \A n \in 1..MaxLoanID :
        \A field \in {"name", "amount", "purpose"} :
            HasLoan(loans, chatID, n) =>
                LET w1 == HandleCallbackQuery(World, chatID, <<"edit", FormatInt(n)>>, {})
                    w2 == HandleCallbackQuery(w1, chatID, <<"edit", field, FormatInt(n)>>, {})
                    w3 == HandleText(w2, chatID, EditValue(field), {})
                    state == w2.userStates[chatID]
                IN  /\ state.Operation = OpEditLoan
                    /\ state.Step = 1
                    /\ MapGet(state.Data, "loan_id") = FormatInt(n)
                    /\ MapGet(state.Data, "edit_field") = field
                    /\ \A l \in LoanRows(w3, chatID, n) : EditColumn(l, field) = EditValue(field)
                    /\ IdleSession(w3.userStates[chatID])

\* C24: a partial_<id> token that names a loan the owner does not have, or a
\* loan already repaid, does not prompt for an amount and does not put the
\* session in partial-repay at step 1.
C24_PartialOnlyForActiveLoan ==
    \A chatID \in Owners : \A n \in 1..(MaxLoanID + 1) :
        ~HasActiveLoan(loans, chatID, n) =>
            LET w == HandleCallbackQuery(World, chatID, <<"partial", FormatInt(n)>>, {})
                state == w.userStates[chatID]
            IN  /\ ~HasTag(w.sent, "PromptPartialAmount")
                /\ \/ state = userStates[chatID]
                   \/ ~(state.Operation = OpPartialRepay /\ state.Step = 1)

----------------------------------------------------------------------------
(* Partial repayments of one loan up to its principal: the owner has the   *)
(* loan that add-loan created for ("Ayan", P, "rent") and uses the         *)
(* partial-repay flow only, with every statement succeeding.               *)

MaxPrincipal == 4

\* The row add-loan leaves for the owner's first loan.
ScenarioLoan(chatID, principal) ==
    [user_id |-> chatID, loan_id |-> 1, borrower_name |-> "Ayan",
     amount |-> principal, purpose |-> "rent", repaid |-> FALSE]

PartialInit ==
    /\ \E chatID \in Owners : \E principal \in 1..MaxPrincipal :
         loans = {ScenarioLoan(chatID, principal)}
    /\ repayments = <<>>
    /\ userStates = [u \in Owners |-> NoState]
    /\ calls = NoCalls

\* The texts typed at the steps of the partial-repay flow.
PartialTexts(state) ==
    IF state.Operation = OpPartialRepay /\ state.Step = 1
    THEN {FormatInt(n) : n \in 0..(MaxPrincipal + 1)}
    ELSE IF state.Operation = OpPartialRepay /\ state.Step = 2 THEN Notes
    ELSE {}

\* The button partial_<id> of a loan of the owner.
PartialButton(chatID, loanID) ==
    LET w == HandleCallbackQuery(World, chatID, <<"partial", FormatInt(loanID)>>, {})
    IN  /\ loans' = w.loans
        /\ repayments' = w.repayments
        /\ userStates' = w.userStates
        /\ UNCHANGED calls

\* An amount or a note typed into the flow.
PartialAnswer(chatID, rawText) ==
    LET w == HandleText(World, chatID, rawText, {})
    IN  /\ loans' = w.loans
        /\ repayments' = w.repayments
        /\ userStates' = w.userStates
        /\ UNCHANGED calls

PartialNext ==
    \/ \E chatID \in Owners : \E l \in loans : PartialButton(chatID, l.loan_id)
    \/ \E chatID \in Owners : \E rawText \in PartialTexts(userStates[chatID]) :
         PartialAnswer(chatID, rawText)

SpecPartial == PartialInit /\ [][PartialNext]_vars

\* The amounts of a sequence of repayment rows.
AmountsOf(rows) == [i \in 1..Len(rows) |-> rows[i].amount]

\* C25: while a loan is repaid by partial repayments only, every recorded
\* amount is positive, the amounts never total more than the principal, the
\* loan is flagged repaid exactly when they total the principal, the history
\* shows exactly the recorded amounts, the flow offers the principal minus
\* their total as the remaining balance, and the note step appends one row
\* of the staged amount and sets the flag exactly when that amount brings
\* the total to the principal.
C25_PartialsSumToPrincipal ==
    \A l \in loans :
        LET chatID == l.user_id
            rows == RepaymentsOf(repayments, chatID, l.loan_id)
            paid == SumAmounts(rows)
            hist == ShowLoanRepaymentHistory(World, chatID, l.loan_id, {})
            pick == HandleCallbackQuery(World, chatID, <<"partial", FormatInt(l.loan_id)>>, {})
            state == userStates[chatID]
            staged == ParseInt(MapGet(state.Data, "repayment_amount")).val
        IN  /\ \A i \in 1..Len(rows) : rows[i].amount > 0
            /\ paid <= l.amount
            /\ l.repaid <=> (paid = l.amount)
            /\ Len(rows) = Len(repayments)
            /\ hist.sent[1].tag = "History"
            /\ hist.sent[1].args = AmountsOf(rows)
            /\ ~l.repaid =>
                 /\ pick.sent[1].tag = "PromptPartialAmount"
                 /\ pick.sent[1].args = <<l.loan_id, l.amount - paid>>
            /\ (state.Operation = OpPartialRepay /\ state.Step = 2) =>
                 \A note \in Notes :
                     LET w == HandleText(World, chatID, note, {})
                     IN  /\ staged > 0 /\ staged <= l.amount - paid
                         /\ Len(w.repayments) = Len(repayments) + 1
                         /\ SubSeq(w.repayments, 1, Len(repayments)) = repayments
                         /\ w.repayments[Len(w.repayments)].amount = staged
                         /\ w.repayments[Len(w.repayments)].loan_id = l.loan_id
                         /\ w.loans = {[l EXCEPT !.repaid = (paid + staged = l.amount)]}
                         /\ IdleSession(w.userStates[chatID])

\* The largest principal repaid in two unequal parts, the first without a
\* note and the second with the note "done": the loan is flagged repaid.
C25_TwoPartsRepayLoan ==
    \E l \in loans :
        /\ l.amount = MaxPrincipal
        /\ l.repaid
        /\ Len(repayments) = 2
        /\ AmountsOf(repayments) = <<1, MaxPrincipal - 1>>
        /\ repayments[1].note = "" /\ repayments[2].note = "done"

----------------------------------------------------------------------------
(* Two owners side by side: each creates, repays in parts and deletes a    *)
(* loan of its own, so that both hold rows under the same loan id.         *)

MaxOwnersRepayments == 2

\* The buttons the two owners press.
OwnersTokens ==
    {MenuAddLoan, <<"partial", "1">>, ConfirmDeleteToken(1)}

\* The texts the two owners type: one accepted answer for each step.
OwnersTexts(state) ==
    CASE state.Operation = OpAddLoan /\ state.Step = 0 -> Names
      [] state.Operation = OpAddLoan /\ state.Step = 1 -> {"2"}
      [] state.Operation = OpAddLoan /\ state.Step = 2 -> Purposes
      [] state.Operation = OpPartialRepay /\ state.Step = 1 -> {"1"}
      [] state.Operation = OpPartialRepay /\ state.Step = 2 -> {"-"}
      [] OTHER -> {}

OwnersInit ==
    /\ loans = {}
    /\ repayments = <<>>
    /\ userStates = [u \in AllocOwners |-> NoState]
    /\ calls = NoCalls

OwnersBounds(w) ==
    /\ \A l \in w.loans : l.loan_id <= MaxLoanID
    /\ Len(w.repayments) <= MaxOwnersRepayments

OwnersText(chatID, rawText) ==
    LET w == HandleText(World, chatID, rawText, {})
    IN  /\ OwnersBounds(w)
        /\ loans' = w.loans
        /\ repayments' = w.repayments
        /\ userStates' = w.userStates
        /\ UNCHANGED calls

OwnersButton(chatID, data) ==
    LET w == HandleCallbackQuery(World, chatID, data, {})
    IN  /\ OwnersBounds(w)
        /\ loans' = w.loans
        /\ repayments' = w.repayments
        /\ userStates' = w.userStates
        /\ UNCHANGED calls

OwnersNext ==
    \/ \E chatID \in AllocOwners : \E rawText \in OwnersTexts(userStates[chatID]) :
         OwnersText(chatID, rawText)
    \/ \E chatID \in AllocOwners : \E data \in OwnersTokens : OwnersButton(chatID, data)

SpecOwners == OwnersInit /\ [][OwnersNext]_vars

\* What belongs to an owner in a world: its loans, its repayments in order,
\* its session record.
OwnPart(w, chatID) ==
    [loans |-> {l \in w.loans : l.user_id = chatID},
     repayments |-> SelectSeq(w.repayments, LAMBDA r : r.user_id = chatID),
     state |-> w.userStates[chatID]]

\* The world with nothing but what belongs to the owner.
OnlyOwner(w, chatID) ==
    [loans |-> {l \in w.loans : l.user_id = chatID},
     repayments |-> SelectSeq(w.repayments, LAMBDA r : r.user_id = chatID),
     userStates |-> [u \in DOMAIN w.userStates |->
                        IF u = chatID THEN w.userStates[u] ELSE NoState],
     sent |-> w.sent]

\* The handler result w for an event of chatID leaves what belongs to the
\* others as it is in the present state, writes to chatID only, and is what
\* the handler gives (wa) when the others have no rows and no session.
Isolated(w, wa, chatID) ==
    /\ \A u \in AllocOwners \ {chatID} : OwnPart(w, u) = OwnPart(World, u)
    /\ \A i \in 1..Len(w.sent) : w.sent[i].chat = chatID
    /\ OwnPart(w, chatID) = OwnPart(wa, chatID)
    /\ w.sent = wa.sent

\* C26: every text, command and button token handled for an owner, in any
\* session state and with any statement failing, leaves the loans, the
\* repayments and the session of every other owner unchanged, sends to that
\* owner only, and has the result it has when the other owners have no rows.
C26_OwnersAreIsolated ==
    \A chatID \in AllocOwners :
        /\ \A rawText \in TextInputs(userStates[chatID]) :
             \A F \in Faults(TextStatements(userStates[chatID])) :
                 Isolated(HandleText(World, chatID, rawText, F),
                          HandleText(OnlyOwner(World, chatID), chatID, rawText, F), chatID)
        /\ \A command \in Commands :
                 Isolated(HandleCommand(World, chatID, command),
                          HandleCommand(OnlyOwner(World, chatID), chatID, command), chatID)
        /\ \A data \in Tokens : \A F \in Faults(TokenStatements(data)) :
                 Isolated(HandleCallbackQuery(World, chatID, data, F),
                          HandleCallbackQuery(OnlyOwner(World, chatID), chatID, data, F), chatID)

\* Two owners each hold loan 1 with a repayment row, one of them inside a
\* flow; the other deletes its loan, and the first one's rows are untouched.
C26_SameIdTwoOwners ==
    \E a, b \in AllocOwners :
        /\ a /= b
        /\ HasLoan(loans, a, 1) /\ HasLoan(loans, b, 1)
        /\ RepaymentsOf(repayments, a, 1) /= <<>>
        /\ RepaymentsOf(repayments, b, 1) /= <<>>
        /\ ActiveFlow(userStates[b])
        /\ LET w == HandleCallbackQuery(World, a, ConfirmDeleteToken(1), {})
           IN  /\ ~HasLoan(w.loans, a, 1)
               /\ RepaymentsOf(w.repayments, a, 1) = <<>>
               /\ HasLoan(w.loans, b, 1)
               /\ RepaymentsOf(w.repayments, b, 1) = RepaymentsOf(repayments, b, 1)

----------------------------------------------------------------------------
(* The reminder scheduler: one goroutine that waits for the ticker and     *)
(* runs SendReminders itself.  calls.tick is the ticker's channel (one     *)
(* slot), calls.loop the goroutine's position, calls.sweeps the sweeps in  *)
(* progress: the users still to be reminded and the digests sent so far.   *)
(* The update loop meanwhile marks loans repaid.                           *)

NumReminderOwners == 3

ReminderOwners == 1..NumReminderOwners

ReminderInit ==
    /\ \E S \in SUBSET ReminderOwners : loans = {ScenarioLoan(u, 1) : u \in S}
    /\ repayments = <<>>
    /\ userStates = [u \in ReminderOwners |-> NoState]
    /\ calls = [tick |-> 0, loop |-> "wait", sweeps |-> <<>>]

\* SELECT DISTINCT user_id FROM loans WHERE repaid = 0
ReminderUsers(w) == {l.user_id : l \in {x \in w.loans : ~x.repaid}}

\* The digest for a user: the ids of its rows with repaid = 0.
ReminderDigest(w, userID) ==
    [chat |-> userID, tag |-> "Reminder", args |-> GetActiveLoansForUser(w, userID)]

\* A loop that hands every tick to a goroutine of its own.
ReminderLoopAlways(c) == TRUE

\* The loop is at <-ticker.C: the call of SendReminders before it has returned.
ReminderLoopReady(c) == c.loop = "wait"

\* The ticker fires; a tick that finds the slot full is dropped.
ReminderTick ==
    /\ calls.tick = 0
    /\ calls' = [calls EXCEPT !.tick = 1]
    /\ UNCHANGED <<loans, repayments, userStates>>

\* The loop receives the tick and SendReminders reads the users to remind.
ReminderReceive ==
    /\ ReminderLoopReady(calls)
    /\ calls.tick = 1
    /\ calls' = [calls EXCEPT
           !.tick = 0,
           !.loop = "busy",
           !.sweeps = Append(@, [todo |-> ReminderUsers(World), out |-> <<>>])]
    /\ UNCHANGED <<loans, repayments, userStates>>

\* SendReminders sends the digest of one of the users it has read.
ReminderSend(i, userID) ==
    /\ i \in 1..Len(calls.sweeps)
    /\ userID \in calls.sweeps[i].todo
    /\ calls' = [calls EXCEPT
           !.sweeps[i].todo = @ \ {userID},
           !.sweeps[i].out = Append(@, ReminderDigest(World, userID))]
    /\ UNCHANGED <<loans, repayments, userStates>>

\* SendReminders returns and the loop waits for the next tick.
ReminderReturn(i) ==
    /\ i \in 1..Len(calls.sweeps)
    /\ calls.sweeps[i].todo = {}
    /\ calls' = [calls EXCEPT
           !.loop = "wait",
           !.sweeps = SubSeq(@, 1, i - 1) \o SubSeq(@, i + 1, Len(@))]
    /\ UNCHANGED <<loans, repayments, userStates>>

\* The update loop handles confirm_repay_<id> for an active loan.
ReminderRepay(chatID) ==
    LET w == HandleCallbackQuery(World, chatID, <<"confirm", "repay", "1">>, {})
    IN  /\ HasActiveLoan(loans, chatID, 1)
        /\ loans' = w.loans
        /\ repayments' = w.repayments
        /\ userStates' = w.userStates
        /\ UNCHANGED calls

ReminderNext ==
    \/ ReminderTick
    \/ ReminderReceive
    \/ \E i \in 1..NumReminderOwners, userID \in ReminderOwners : ReminderSend(i, userID)
    \/ \E i \in 1..NumReminderOwners : ReminderReturn(i)
    \/ \E chatID \in ReminderOwners : ReminderRepay(chatID)

SpecReminder == ReminderInit /\ [][ReminderNext]_vars

\* C27: at most one reminder sweep is in progress, and one is in progress
\* exactly while the scheduler's loop is inside SendReminders; a tick that
\* arrives meanwhile waits in the ticker's slot.
C27_OneSweepAtATime ==
    /\ Len(calls.sweeps) <= 1
    /\ (calls.loop = "busy") <=> (Len(calls.sweeps) = 1)

\* A sweep with users still to remind and one digest sent, and the next
\* tick already fired.
C27_TickDuringSweep ==
    /\ Len(calls.sweeps) = 1
    /\ calls.sweeps[1].todo /= {}
    /\ calls.sweeps[1].out /= <<>>
    /\ calls.tick = 1

----------------------------------------------------------------------------
(* Listings: one owner who creates up to two loans, repays and deletes.    *)

MaxListID == 3
MaxListRepayments == 3

\* The buttons that name a loan by its number.
LoanTokens(t) ==
    {<<p, t>> : p \in {"edit", "delete", "partial", "history", "repay"}}
    \cup {<<"edit", f, t>> : f \in {"name", "amount", "purpose"}}
    \cup {<<"confirm", p, t>> : p \in {"delete", "repay"}}

\* The buttons pressed: start add-loan, confirm the repayment or the
\* deletion of a loan.
ListTokens ==
    {MenuAddLoan}
    \cup {<<"confirm", "repay", FormatInt(n)>> : n \in 1..MaxListID}
    \cup {ConfirmDeleteToken(n) : n \in 1..MaxListID}

ListInit ==
    /\ loans = {}
    /\ repayments = <<>>
    /\ userStates = [u \in Owners |-> NoState]
    /\ calls = NoCalls

ListBounds(w) ==
    /\ \A l \in w.loans : l.loan_id <= MaxListID
    /\ Len(w.repayments) <= MaxListRepayments

ListText(chatID, rawText) ==
    LET w == HandleText(World, chatID, rawText, {})
    IN  /\ ListBounds(w)
        /\ loans' = w.loans
        /\ repayments' = w.repayments
        /\ userStates' = w.userStates
        /\ UNCHANGED calls

ListButton(chatID, data) ==
    LET w == HandleCallbackQuery(World, chatID, data, {})
    IN  /\ ListBounds(w)
        /\ loans' = w.loans
        /\ repayments' = w.repayments
        /\ userStates' = w.userStates
        /\ UNCHANGED calls

ListNext ==
    \/ \E chatID \in Owners : \E rawText \in AllocTextInputs(userStates[chatID]) :
         ListText(chatID, rawText)
    \/ \E chatID \in Owners : \E data \in ListTokens : ListButton(chatID, data)

SpecLists == ListInit /\ [][ListNext]_vars

\* The loan ids the messages with the tag show.
Listed(out, tag) ==
    UNION {{out[i].args[j] : j \in 1..Len(out[i].args)} :
              i \in {k \in 1..Len(out) : out[k].tag = tag}}

\* The listings of active loans: the button that asks for each, and the tag
\* of the message that carries the list.
ActiveListings ==
    {<<MenuBalance, "Balance">>, <<MenuRepay, "SelectRepay">>,
     <<<<"menu", "edit", "loan">>, "SelectEdit">>,
     <<<<"menu", "partial", "repay">>, "SelectPartial">>,
     <<<<"status", "active">>, "LoansByStatus">>}

\* C28: a loan whose flag is set is in none of the listings of active loans
\* (balance, repay, edit and partial selection, loans by status "active",
\* reminder digest), is in the listing of all loans, and keeps its flag
\* through every text, command and button token the owner can send, with
\* any statement failing, as long as its row exists.
C28_RepaidLeavesActiveLists ==
    \A l \in loans :
        l.repaid =>
            LET chatID == l.user_id
                t == FormatInt(l.loan_id)
                keeps(w) == \A x \in LoanRows(w, chatID, l.loan_id) : x.repaid
            IN  /\ \A a \in ActiveListings :
                     l.loan_id \notin Listed(HandleCallbackQuery(World, chatID, a[1], {}).sent, a[2])
                /\ l.loan_id \notin Listed(<<ReminderDigest(World, chatID)>>, "Reminder")
                /\ (\A x \in loans : x.user_id = chatID => x.repaid) =>
                       chatID \notin ReminderUsers(World)
                /\ l.loan_id \in Listed(HandleCallbackQuery(World, chatID,
                                            <<"search", "all", "loans">>, {}).sent, "AllLoans")
                /\ \A data \in Tokens \cup LoanTokens(t) :
                     \A F \in Faults(TokenStatements(data)) :
                         keeps(HandleCallbackQuery(World, chatID, data, F))
                /\ \A rawText \in TextInputs(userStates[chatID]) \cup {t} :
                     \A F \in Faults(TextStatements(userStates[chatID])) :
                         keeps(HandleText(World, chatID, rawText, F))
                /\ \A command \in Commands : keeps(HandleCommand(World, chatID, command))

\* An owner with a repaid loan and an active one: the balance lists the
\* active one alone, the listing of all loans lists both.
C28_RepaidBesideActive ==
    \E chatID \in Owners : \E l1, l2 \in loans :
        /\ l1.user_id = chatID /\ l2.user_id = chatID
        /\ l1.repaid /\ ~l2.repaid
        /\ Listed(HandleCallbackQuery(World, chatID, MenuBalance, {}).sent, "Balance")
               = {l2.loan_id}
        /\ Listed(HandleCallbackQuery(World, chatID, <<"search", "all", "loans">>, {}).sent,
                  "AllLoans") = {l1.loan_id, l2.loan_id}

----------------------------------------------------------------------------
(* Search by name: one owner with up to three loans under different names  *)
(* starts the search flow and types a text.                                *)

MaxSearchLoans == 3

SearchNames == {"Ayan", "Maya", "Zhan"}

\* The texts searched for: parts of names in either case, a name, a text
\* that is in no name, and the characters _ and %.
SearchTexts == {"ay", "AY", "Maya", "zhan", "rent", "_", "%"}

\* The tables after the owner has created loans under these names and
\* deleted some of them.
SearchInit ==
    /\ \E chatID \in Owners : \E ids \in SUBSET (1..MaxSearchLoans) :
         \E name \in [ids -> SearchNames] :
           loans = {[ScenarioLoan(chatID, 1) EXCEPT !.loan_id = n, !.borrower_name = name[n]] :
                       n \in ids}
    /\ repayments = <<>>
    /\ userStates = [u \in Owners |-> NoState]
    /\ calls = NoCalls

\* The button search_by_name.
SearchStart(chatID) ==
    LET w == HandleCallbackQuery(World, chatID, SearchByName, {})
    IN  /\ loans' = w.loans
        /\ repayments' = w.repayments
        /\ userStates' = w.userStates
        /\ UNCHANGED calls

\* The text typed at the prompt of the search flow.
SearchText(chatID, rawText, F) ==
    LET w == HandleText(World, chatID, rawText, F)
    IN  /\ userStates[chatID].Operation = OpSearchLoan
        /\ loans' = w.loans
        /\ repayments' = w.repayments
        /\ userStates' = w.userStates
        /\ UNCHANGED calls

SearchNext ==
    \/ \E chatID \in Owners : SearchStart(chatID)
    \/ \E chatID \in Owners : \E rawText \in SearchTexts :
         \E F \in Faults({"search"}) : SearchText(chatID, rawText, F)

SpecSearch == SearchInit /\ [][SearchNext]_vars

\* Lower case of a character, ASCII or not.
LowerLetter(c) == IF c = "#ZH" THEN "#zh" ELSE LowerASCII(c)

\* text occurs in name as a run of characters, the case of letters ignored.
IsSubstringNoCase(name, text) ==
    LET n == [i \in 1..Len(Letters(name)) |-> LowerLetter(Letters(name)[i])]
        t == [i \in 1..Len(Letters(text)) |-> LowerLetter(Letters(text)[i])]
    IN  \E i \in 0..Len(n) : i + Len(t) <= Len(n) /\ SubSeq(n, i + 1, i + Len(t)) = t

\* C29: a text typed at the prompt of search-by-name is answered with
\* exactly the owner's loans whose borrower name contains the text, the
\* case of letters ignored, or with the message that nothing was found when
\* there is none; it writes nothing and leaves the session idle.
C29_SearchFindsSubstring ==
    \A chatID \in Owners :
        (userStates[chatID].Operation = OpSearchLoan /\ userStates[chatID].Step = 0) =>
            \A rawText \in SearchTexts :
                LET w == HandleText(World, chatID, rawText, {})
                    expected == {l.loan_id : l \in {x \in loans :
                                    /\ x.user_id = chatID
                                    /\ IsSubstringNoCase(x.borrower_name, rawText)}}
                IN  /\ w.loans = loans /\ w.repayments = repayments
                    /\ IdleSession(w.userStates[chatID])
                    /\ Listed(w.sent, "SearchResults") = expected
                    /\ (HasTag(w.sent, "SearchResults") <=> expected /= {})
                    /\ (HasTag(w.sent, "NothingFound") <=> expected = {})

----------------------------------------------------------------------------
(* Properties of the add-loan flow *)

\* The loan that the purpose step registers from the scratch data.
StagedLoan(chatID, purpose) ==
    LET data == userStates[chatID].Data
    IN  [user_id |-> chatID, loan_id |-> NextLoanID(World, chatID),
         borrower_name |-> MapGet(data, "borrower_name"),
         amount |-> ParseInt(MapGet(data, "amount")).val,
         purpose |-> purpose, repaid |-> FALSE]

\* C30: in the add-loan flow the texts of steps 0 and 1 leave the ledger
\* unchanged; an accepted name is kept as borrower_name and the flow moves
\* to step 1, an accepted amount is kept as amount beside the name and the
\* flow moves to step 2; a non-empty purpose at step 2 adds exactly one
\* loan of the owner, with the staged borrower and amount, this purpose and
\* repaid = FALSE, and changes no other loan and no repayment.
C30_AddLoanStagesThenInserts ==
    \A chatID \in Owners :
        LET state == userStates[chatID]
        IN  (state.exists /\ state.Operation = OpAddLoan) =>
                \A rawText \in TextInputs(state) :
                    LET w == HandleText(World, chatID, rawText, {})
                        text == TrimSpace(rawText)
                        after == w.userStates[chatID]
                    IN  /\ w.repayments = repayments
                        /\ state.Step \in {0, 1} => w.loans = loans
                        /\ (state.Step = 0 /\ text /= "") =>
                              /\ after.Operation = OpAddLoan /\ after.Step = 1
                              /\ MapGet(after.Data, "borrower_name") = text
                        /\ (state.Step = 1 /\ ~ParseInt(text).err) =>
                              /\ after.Operation = OpAddLoan /\ after.Step = 2
                              /\ MapGet(after.Data, "amount") = FormatInt(ParseInt(text).val)
                              /\ MapGet(after.Data, "borrower_name") =
                                     MapGet(state.Data, "borrower_name")
                        /\ (state.Step = 2 /\ text /= "") =>
                              /\ MapGet(state.Data, "borrower_name") \in Names
                              /\ MapGet(state.Data, "amount") \in AmountTexts
                              /\ StagedLoan(chatID, text) \notin loans
                              /\ w.loans = loans \cup {StagedLoan(chatID, text)}

\* A purpose is awaited while the owner already has a loan and a repayment.
C30_PurposeStepBesideLedger ==
    \E chatID \in Owners :
        /\ userStates[chatID].exists
        /\ userStates[chatID].Operation = OpAddLoan /\ userStates[chatID].Step = 2
        /\ MapGet(userStates[chatID].Data, "amount") = FormatInt(MaxAmount)
        /\ \E l \in loans : l.user_id = chatID
        /\ Len(repayments) > 0
        /\ StagedLoan(chatID, "rent") \in HandleText(World, chatID, "rent", {}).loans \ loans

----------------------------------------------------------------------------
(* Properties of editing, reading and routing *)

\* The loan l with the column of field set to the value the text spells.
WithColumn(l, field, text) ==
    CASE field = "name" -> [l EXCEPT !.borrower_name = text]
      [] field = "amount" -> [l EXCEPT !.amount = ParseInt(text).val]
      [] field = "purpose" -> [l EXCEPT !.purpose = text]

\* C31: for a loan of the owner, choosing the loan (edit_<id>), a field
\* (edit_<field>_<id>) and typing a valid value sets exactly that column of
\* exactly that loan: its other columns, the other loans and the repayment
\* rows are as before; an amount that is no number or not positive is
\* refused and nothing is written.
C31_EditFieldUpdatesOneColumn ==
    \A chatID \in Owners : \A n \in 1..MaxLoanID :
        \A field \in {"name", "amount", "purpose"} :
            HasLoan(loans, chatID, n) =>
                LET w1 == HandleCallbackQuery(World, chatID, <<"edit", FormatInt(n)>>, {})
                    w2 == HandleCallbackQuery(w1, chatID, <<"edit", field, FormatInt(n)>>, {})
                    good == HandleText(w2, chatID, EditValue(field), {})
                IN  /\ good.repayments = repayments
                    /\ good.loans = {IF l.user_id = chatID /\ l.loan_id = n
                                     THEN WithColumn(l, field, EditValue(field))
                                     ELSE l : l \in loans}
                    /\ field = "amount" =>
                          \A bad \in {"Maya", "0"} :
                              LET w3 == HandleText(w2, chatID, bad, {})
                              IN  w3.loans = loans /\ w3.repayments = repayments

\* SendReminders as one call: the user list, then a digest to each user.
RECURSIVE SendDigests(_, _)
SendDigests(w, userIDs) ==
    IF userIDs = {} THEN w
    ELSE LET userID == CHOOSE u \in userIDs : \A v \in userIDs : u <= v
         IN  SendDigests([w EXCEPT !.sent = Append(@, ReminderDigest(w, userID))],
                         userIDs \ {userID})

SendReminders(w, F) ==
    IF "select_users" \in F THEN w ELSE SendDigests(w, ReminderUsers(w))

\* The buttons of balance, statistics and the listings.
ViewTokens ==
    {MenuBalance, MenuStats, <<"status", "active">>, <<"status", "repaid">>,
     <<"search", "all", "loans">>}

\* The buttons of the search menus and of the repayment history.
LookupTokens ==
    {MenuSearch, SearchByName, SearchByStatus, <<"menu", "repayment", "history">>}
    \cup {<<"history", t>> : t \in Tails}

\* C32: balance, statistics, the listings, the search (its buttons and the
\* text searched for), the repayment history and the reminder sweep leave
\* every loan and repayment row as it was, with or without a failing
\* statement; balance, statistics, the listings and the sweep also leave
\* every session as it was.
C32_ReadsChangeNothing ==
    /\ \A chatID \in Owners : \A data \in ViewTokens \cup LookupTokens :
          \A F \in Faults(TokenStatements(data)) :
              LET w == HandleCallbackQuery(World, chatID, data, F)
              IN  /\ w.loans = loans /\ w.repayments = repayments
                  /\ data \in ViewTokens => w.userStates = userStates
    /\ \A chatID \in Owners :
          userStates[chatID].Operation = OpSearchLoan =>
              \A rawText \in TextInputs(userStates[chatID]) \cup SearchTexts :
                  \A F \in Faults({"search"}) :
                      LET w == HandleText(World, chatID, rawText, F)
                      IN  w.loans = loans /\ w.repayments = repayments
    /\ \A F \in Faults({"select_users"}) :
          LET w == SendReminders(World, F)
          IN  w.loans = loans /\ w.repayments = repayments /\ w.userStates = userStates

\* A flow with staged data is open while the owner has an active loan and a
\* repayment row, and the views and the sweep report that loan.
C32_ViewsInsideFlow ==
    \E chatID \in Owners :
        /\ ActiveFlow(userStates[chatID])
        /\ DOMAIN userStates[chatID].Data /= {}
        /\ Len(repayments) > 0
        /\ \E l \in loans : l.user_id = chatID /\ ~l.repaid
        /\ HasTag(HandleCallbackQuery(World, chatID, MenuBalance, {}).sent, "Balance")
        /\ HasTag(HandleCallbackQuery(World, chatID, <<"status", "active">>, {}).sent,
                  "LoansByStatus")
        /\ HasTag(SendReminders(World, {}).sent, "Reminder")

\* The callback data the program attaches to the keyboards it sends: the
\* main menu (156-165), the management menu (530-538), the search menus
\* (554-559, 1141-1145), the loan lists (214, 1790, 1838, 1882, 1922), the
\* field keyboard (652-661) and the confirmation keyboards (731-732, 837-838).
AttachedTokens ==
    {MenuAddLoan, MenuRepay, MenuBalance, MenuStats, MenuManage, MenuSearch,
     SubMenuEdit, SubMenuDelete, SubMenuPartial, SubMenuRepayments,
     SearchByName, SearchByStatus, SearchAll,
     <<"status", "active">>, <<"status", "repaid">>,
     <<"back", "to", "main">>, <<"back", "to", "manage">>, <<"back", "to", "search">>}
    \cup {<<p, FormatInt(n)>> : p \in {"repay", "edit", "delete", "partial", "history"},
                                n \in 1..MaxLoanID}
    \cup {<<"edit", f, FormatInt(n)>> : f \in {"name", "amount", "purpose"},
                                        n \in 1..MaxLoanID}
    \cup {<<"confirm", p, FormatInt(n)>> : p \in {"delete", "repay"}, n \in 1..MaxLoanID}

\* The handler the label of a button names, for the buttons of the
\* management menu, of "all loans" and of the field keyboard.
IntendedHandler(w, chatID, data) ==
    CASE data = SubMenuEdit -> StartEditLoanFlow(w, chatID, {})
      [] data = SubMenuDelete -> StartDeleteLoanFlow(w, chatID, {})
      [] data = SubMenuPartial -> StartPartialRepaymentFlow(w, chatID, {})
      [] data = SubMenuRepayments -> ShowRepaymentHistory(w, chatID, {})
      [] data = SearchAll -> ShowAllLoans(w, chatID, {})
      [] Len(data) = 3 /\ data[1] = "edit" ->
             SelectEditField(w, chatID, data[3], data[2],
                 CASE data[2] = "name" -> "PromptNewName"
                   [] data[2] = "amount" -> "PromptNewAmount"
                   [] OTHER -> "PromptNewPurpose")
      [] OTHER -> HandleCallbackQuery(w, chatID, data, {})

\* C33: every callback data the program attaches to a keyboard is handled
\* by the case meant for it: the answer is never "unknown command", and the
\* buttons of the management menu, of "all loans" and of the field
\* keyboard give the result of the handler their label names.
C33_AttachedButtonsAreRouted ==
    \A chatID \in Owners : \A data \in AttachedTokens :
        LET w == HandleCallbackQuery(World, chatID, data, {})
        IN  /\ ~HasTag(w.sent, "UnknownCommand")
            /\ w = IntendedHandler(World, chatID, data)

----------------------------------------------------------------------------
(* Properties of the tables and of the sessions *)

\* C34: every repayment row names a loan that its owner has: no row is
\* left, or written, for an (owner, loan_id) without a loan row.
C34_RepaymentsReferToLoans ==
    \A i \in 1..Len(repayments) :
        HasLoan(loans, repayments[i].user_id, repayments[i].loan_id)

----------------------------------------------------------------------------
(* Creation order: an owner who creates and deletes loans, with the order  *)
(* in which the loans held were created (column created_at) and the ids    *)
(* that a deletion has freed.                                              *)

NumOrderOwners == 1   \* chat ids 1..NumOrderOwners

OrderOwners == 1..NumOrderOwners

OrderInit ==
    /\ loans = {}
    /\ repayments = <<>>
    /\ userStates = [u \in OrderOwners |-> NoState]
    /\ calls = [created |-> [u \in OrderOwners |-> <<>>], freed |-> {}]

\* The log after a handler has turned the loans table from before to after:
\* deleted rows leave it, inserted rows are the latest.
LogCreation(c, before, after) ==
    [created |-> [u \in OrderOwners |->
                     SelectSeq(c.created[u], LAMBDA n : HasLoan(after, u, n))
                     \o SortedSeq(LoanIDsOf(after, u) \ LoanIDsOf(before, u))],
     freed |-> c.freed \cup {<<l.user_id, l.loan_id>> : l \in before \ after}]

OrderText(chatID, rawText, F) ==
    LET w == HandleText(World, chatID, rawText, F)
    IN  /\ AllocBounds(w)
        /\ loans' = w.loans
        /\ repayments' = w.repayments
        /\ userStates' = w.userStates
        /\ calls' = LogCreation(calls, loans, w.loans)

OrderButton(chatID, data, F) ==
    LET w == HandleCallbackQuery(World, chatID, data, F)
    IN  /\ AllocBounds(w)
        /\ loans' = w.loans
        /\ repayments' = w.repayments
        /\ userStates' = w.userStates
        /\ calls' = LogCreation(calls, loans, w.loans)

OrderNext ==
    \/ \E chatID \in OrderOwners : \E rawText \in AllocTextInputs(userStates[chatID]) :
         \E F \in Faults(TextStatements(userStates[chatID])) : OrderText(chatID, rawText, F)
    \/ \E chatID \in OrderOwners : \E data \in AllocTokens :
         \E F \in Faults(TokenStatements(data)) : OrderButton(chatID, data, F)

SpecOrder == OrderInit /\ [][OrderNext]_vars

\* C35: a loan that is created gets an id greater than the id of every
\* loan its owner holds at that moment, so the loans an owner holds, taken
\* in the order of their creation, have ascending ids, also when an id
\* freed by a deletion has been given out again.
C35_IdOrderIsCreationOrder ==
    /\ \A u \in OrderOwners :
          /\ {calls.created[u][i] : i \in 1..Len(calls.created[u])} = LoanIDsOf(loans, u)
          /\ \A i, j \in 1..Len(calls.created[u]) :
                i < j => calls.created[u][i] < calls.created[u][j]
    /\ \A chatID \in OrderOwners : \A rawText \in AllocTextInputs(userStates[chatID]) :
          \A F \in Faults(TextStatements(userStates[chatID])) :
              \A row \in HandleText(World, chatID, rawText, F).loans \ loans :
                  /\ row.user_id = chatID
                  /\ \A n \in LoanIDsOf(loans, chatID) : n < row.loan_id

\* The latest loan of an owner has an id that a deletion had freed, and the
\* owner holds an older loan beside it.
C35_ReusedIdIsLatest ==
    \E u \in OrderOwners :
        LET created == calls.created[u]
        IN  /\ Len(created) >= 2
            /\ <<u, created[Len(created)]>> \in calls.freed

\* The steps the handler of a flow tells apart.
StepRange(operation) ==
    CASE operation = OpAddLoan -> 0..2
      [] operation = OpRepayLoan -> 0..1
      [] operation = OpPartialRepay -> 0..2
      [] operation = OpEditLoan -> 0..1
      [] operation \in {OpDeleteLoan, OpSearchLoan, OpNone} -> {0}
      [] OTHER -> {}

\* C36: the flow tag of every session record is one of none, add-loan,
\* repay-full, edit-loan, delete-loan, partial-repay and search, its step
\* is one the handler of the flow tells apart, and every text typed in the
\* session is answered with a message: none is dropped without one.
C36_SessionsAreWellFormed ==
    \A chatID \in Owners :
        LET state == userStates[chatID]
        IN  state.exists =>
                /\ state.Operation \in {OpNone, OpAddLoan, OpRepayLoan, OpEditLoan,
                                        OpDeleteLoan, OpPartialRepay, OpSearchLoan}
                /\ state.Step \in StepRange(state.Operation)
                /\ \A rawText \in TextInputs(state) :
                      \A F \in Faults(TextStatements(state)) :
                          HandleText(World, chatID, rawText, F).sent /= <<>>

\* A session is in edit-loan at step 0, which HandleEditLoanStep has no case
\* for, while the owner holds a loan; a text typed there is answered with
\* the error of the edit flow.
C36_TextAtEditStepZero ==
    \E chatID \in Owners :
        /\ userStates[chatID].exists
        /\ userStates[chatID].Operation = OpEditLoan /\ userStates[chatID].Step = 0
        /\ \E l \in loans : l.user_id = chatID
        /\ HasTag(HandleText(World, chatID, "Maya", {}).sent, "ErrEdit")

----------------------------------------------------------------------------
(* The update loop of Start: updates arrive on the channel with their ids, *)
(* possibly again or out of order, and the loop takes them one by one.     *)

MaxUpdateID == 5

LoopOwner == 1

\* The content of the update with an id: a press of confirm_repay_1, a text
\* message, or an update that is neither.
UpdateOf(id) ==
    CASE id % 3 = 1 -> [kind |-> "callback", data |-> <<"confirm", "repay", "1">>, text |-> ""]
      [] id % 3 = 2 -> [kind |-> "message", data |-> <<>>, text |-> "Ayan"]
      [] OTHER -> [kind |-> "other", data |-> <<>>, text |-> ""]

LoopInit ==
    /\ loans = {ScenarioLoan(LoopOwner, 1)}
    /\ repayments = <<>>
    /\ userStates = [u \in Owners |-> NoState]
    /\ calls = [lastProcessedID |-> 0, inHand |-> 0, handled |-> <<>>, skipped |-> {}]

\* A loop that takes every update the channel hands it.
LoopSkipsNothing(c, id) == FALSE

\* update.UpdateID <= m.lastProcessedID
LoopSkips(c, id) == id <= c.lastProcessedID

\* The loop is at "range updates" and the update it receives is skipped.
LoopSkip(id) ==
    /\ calls.inHand = 0
    /\ LoopSkips(calls, id)
    /\ calls' = [calls EXCEPT !.skipped = @ \cup {id}]
    /\ UNCHANGED <<loans, repayments, userStates>>

\* The loop is at "range updates" and the update it receives is taken.
LoopTake(id) ==
    /\ calls.inHand = 0
    /\ ~LoopSkips(calls, id)
    /\ calls' = [calls EXCEPT !.lastProcessedID = id, !.inHand = id]
    /\ UNCHANGED <<loans, repayments, userStates>>

\* The body of the loop for the update in hand, to the end of the iteration.
LoopHandle ==
    LET update == UpdateOf(calls.inHand)
        w == CASE update.kind = "callback" ->
                      HandleCallbackQuery(World, LoopOwner, update.data, {})
               [] update.kind = "message" /\ update.text /= "" ->
                      HandleText(World, LoopOwner, update.text, {})
               [] OTHER -> World
    IN  /\ calls.inHand /= 0
        /\ loans' = w.loans
        /\ repayments' = w.repayments
        /\ userStates' = w.userStates
        /\ calls' = [calls EXCEPT !.inHand = 0, !.handled = Append(@, calls.inHand)]

LoopNext ==
    \/ \E id \in 1..MaxUpdateID : LoopSkip(id)
    \/ \E id \in 1..MaxUpdateID : LoopTake(id)
    \/ LoopHandle

SpecLoop == LoopInit /\ [][LoopNext]_vars

\* C37: the updates the loop has handled have strictly increasing ids, so
\* none was handled twice; the update in hand is the last one taken and is
\* newer than all handled; every skipped update has an id that is not above
\* the last one taken; and the repayment rows are one for each handled
\* press of confirm_repay_1: no update wrote twice.
C37_UpdatesHandledOnceInOrder ==
    /\ \A i, j \in 1..Len(calls.handled) : i < j => calls.handled[i] < calls.handled[j]
    /\ \A i \in 1..Len(calls.handled) : calls.handled[i] <= calls.lastProcessedID
    /\ calls.inHand /= 0 =>
          /\ calls.inHand = calls.lastProcessedID
          /\ \A i \in 1..Len(calls.handled) : calls.handled[i] < calls.inHand
    /\ \A id \in calls.skipped : id <= calls.lastProcessedID
    /\ Len(repayments) =
          Cardinality({i \in 1..Len(calls.handled) :
                          UpdateOf(calls.handled[i]).kind = "callback"})

\* A press of confirm_repay_1 was handled, wrote its repayment row, arrived
\* again and was skipped.
C37_RedeliveredPressSkipped ==
    \E i \in 1..Len(calls.handled) :
        /\ UpdateOf(calls.handled[i]).kind = "callback"
        /\ calls.handled[i] \in calls.skipped
        /\ Len(repayments) >= 1

----------------------------------------------------------------------------
(* The earlier variant of the bot, with the conversations "addloan" and    *)
(* "repay": the repay conversation over an owner's loans.                  *)

MaxEarlyID == 4

EarlyOwner == 1

\* The texts typed in the repay conversation: blank, no number, loan ids.
EarlyTexts == {" ", "x"} \cup {FormatInt(n) : n \in 1..(MaxEarlyID + 1)}

\* The tables after the owner has registered some loans; no conversation.
EarlyInit ==
    /\ \E n \in 0..MaxEarlyID :
          loans = {[ScenarioLoan(EarlyOwner, 1) EXCEPT !.loan_id = k] : k \in 1..n}
    /\ repayments = <<>>
    /\ userStates = [u \in Owners |-> NoState]
    /\ calls = NoCalls

sendMainMenu(w, chatID) == SendMessage(w, chatID, "MainMenu", <<>>)

\* delete(conversations, chatID)
endConversation(w, chatID) == [w EXCEPT !.userStates[chatID] = NoState]

\* conversations[chatID] = &Conversation{Operation: "repay", Step: 0, ...}
startRepayConversation(w, chatID) ==
    SendMessage([w EXCEPT !.userStates[chatID] =
                    [exists |-> TRUE, Operation |-> "repay", Step |-> 0, Data |-> EmptyData]],
                chatID, "PromptRepayID", <<>>)

\* handleRepayStep: conv points into the map, so conv.Step++ and the write
\* to conv.Data stay when the function returns early.
handleRepayStep(w, chatID, text, F) ==
    LET conv == w.userStates[chatID]
    IN  IF conv.Step /= 0
        THEN endConversation(SendMessage(w, chatID, "ErrRepayProcess", <<>>), chatID)
        ELSE IF text = "" THEN SendMessage(w, chatID, "ErrEmptyLoanID", <<>>)
        ELSE LET w1 == [w EXCEPT !.userStates[chatID] =
                          [conv EXCEPT !.Data = MapPut(conv.Data, "loan_id", text),
                                       !.Step = conv.Step + 1]]
                 id == Atoi(text)
             IN  IF id.err THEN SendMessage(w1, chatID, "ErrBadLoanID", <<>>)
                 ELSE IF "exists" \in F \/ ~HasActiveLoan(w1.loans, chatID, id.val)
                 THEN endConversation(
                          SendMessage(w1, chatID, "ErrNotFoundOrRepaid", <<>>), chatID)
                 ELSE IF "update_repaid" \in F
                 THEN SendMessage(w1, chatID, "ErrMarkRepaid", <<>>)
                 ELSE sendMainMenu(endConversation(
                          SendMessage(UpdateRepaid(w1, chatID, id.val),
                                      chatID, "RepaidOK", <<id.val>>),
                          chatID), chatID)

\* handleMessage for a text that is no command, then handleConversationInput
handleConversationInput(w, chatID, rawText, F) ==
    LET text == TrimSpace(rawText)
        conv == w.userStates[chatID]
    IN  IF ~conv.exists THEN sendMainMenu(w, chatID)
        ELSE IF conv.Operation = "repay" THEN handleRepayStep(w, chatID, text, F)
        ELSE sendMainMenu(w, chatID)

\* The button menu_repay.
EarlyRepayButton(chatID) ==
    LET w == startRepayConversation(World, chatID)
    IN  /\ loans' = w.loans
        /\ repayments' = w.repayments
        /\ userStates' = w.userStates
        /\ UNCHANGED calls

EarlyText(chatID, rawText, F) ==
    LET w == handleConversationInput(World, chatID, rawText, F)
    IN  /\ loans' = w.loans
        /\ repayments' = w.repayments
        /\ userStates' = w.userStates
        /\ UNCHANGED calls

EarlyNext ==
    \/ EarlyRepayButton(EarlyOwner)
    \/ \E rawText \in EarlyTexts : \E F \in Faults({"exists", "update_repaid"}) :
         EarlyText(EarlyOwner, rawText, F)

SpecEarly == EarlyInit /\ [][EarlyNext]_vars

\* C38: in the repay conversation at step 0 a text that is no number is
\* answered with the request for a valid id, the conversation stays at
\* step 0 and no loan changes; the id of an active loan typed next marks
\* that loan repaid.
C38_BadIdKeepsStepZero ==
    LET conv == userStates[EarlyOwner]
    IN  (conv.exists /\ conv.Operation = "repay" /\ conv.Step = 0) =>
            LET w1 == handleConversationInput(World, EarlyOwner, "x", {})
            IN  /\ HasTag(w1.sent, "ErrBadLoanID")
                /\ w1.loans = loans
                /\ w1.userStates[EarlyOwner].Step = 0
                /\ \A n \in 1..MaxEarlyID :
                      HasActiveLoan(loans, EarlyOwner, n) =>
                          LET w2 == handleConversationInput(w1, EarlyOwner, FormatInt(n), {})
                          IN  /\ ~HasActiveLoan(w2.loans, EarlyOwner, n)
                              /\ HasLoan(w2.loans, EarlyOwner, n)

====
